---- MODULE Spec2Model ----
(***************************************************************************)
(* Model of clifford's argument-resolution and subcommand-dispatch engine  *)
(* (core/parse.go, internal/common).  Strings are sequences of one-        *)
(* character strings so that prefix tests, lower-casing and numeric        *)
(* parsing are computed on the characters as the Go code computes them.    *)
(* Go slices are 0-based; sequences here are 1-based, so a Go index i is   *)
(* the position i+1.                                                       *)
(***************************************************************************)
EXTENDS Integers, Sequences, FiniteSets, TLC

\* Longest argument vector (os.Args[1:]) the model explores.
MaxArgs == 4

\* the longest argument list tried where every behaviour is followed to its end
MaxLiveArgs == 2

----------------------------------------------------------------------------
(* strings *)

Upper == <<"A","B","C","D","E","F","G","H","I","J","K","L","M",
           "N","O","P","Q","R","S","T","U","V","W","X","Y","Z">>
Lower == <<"a","b","c","d","e","f","g","h","i","j","k","l","m",
           "n","o","p","q","r","s","t","u","v","w","x","y","z">>

ToLowerCh(c) ==
  IF \E i \in 1..26 : Upper[i] = c
    THEN Lower[CHOOSE i \in 1..26 : Upper[i] = c]
    ELSE c

\* strings.ToLower
ToLower(s) == [i \in 1..Len(s) |-> ToLowerCh(s[i])]

\* strings.HasPrefix
HasPrefix(s, p) == Len(p) <= Len(s) /\ SubSeq(s, 1, Len(p)) = p

Empty == <<>>
Dash == <<"-">>
DashDash == <<"-","-">>

\* the literals the parser compares tokens with
StrTrue == <<"t","r","u","e">>
StrHelp == <<"h","e","l","p">>
ShortHelpFlag == <<"-","h">>
LongHelpFlag == <<"-","-","h","e","l","p">>
VersionFlag == <<"-","-","v","e","r","s","i","o","n">>

----------------------------------------------------------------------------
(* strconv *)

Digits == <<"0","1","2","3","4","5","6","7","8","9">>
IsDigit(c) == \E i \in 1..10 : Digits[i] = c
DigitVal(c) == (CHOOSE i \in 1..10 : Digits[i] = c) - 1

RECURSIVE DigitsValOctal(_, _)
\* digits read in base 8
DigitsValOctal(s, acc) ==
  IF s = <<>> THEN acc ELSE DigitsValOctal(Tail(s), acc * 8 + DigitVal(Head(s)))

RECURSIVE DigitsVal(_, _)
DigitsVal(s, acc) ==
  IF s = <<>> THEN acc ELSE DigitsVal(Tail(s), acc * 10 + DigitVal(Head(s)))

\* strconv.Atoi: an optional sign followed by one or more decimal digits.
Atoi(s) ==
  LET signed == s # <<>> /\ Head(s) \in {"+", "-"}
      body == IF signed THEN Tail(s) ELSE s
      ok == body # <<>> /\ \A i \in 1..Len(body) : IsDigit(body[i])
  IN  [ok |-> ok,
       val |-> IF ~ok THEN 0
               ELSE IF signed /\ Head(s) = "-" THEN 0 - DigitsVal(body, 0)
               ELSE DigitsVal(body, 0)]

BoolTrueWords == { <<"1">>, <<"t">>, <<"T">>, <<"T","R","U","E">>,
                   <<"t","r","u","e">>, <<"T","r","u","e">> }
BoolFalseWords == { <<"0">>, <<"f">>, <<"F">>, <<"F","A","L","S","E">>,
                    <<"f","a","l","s","e">>, <<"F","a","l","s","e">> }

\* strconv.ParseBool
ParseBool(s) == [ok |-> s \in BoolTrueWords \cup BoolFalseWords,
                 val |-> s \in BoolTrueWords]

\* strconv.ParseFloat on plain decimal literals: sign, digits, an optional
\* fraction.  The value is kept as the pair (integer part, fraction digits
\* without trailing zeros), which identifies the float64 for short literals.
RECURSIVE StripZeros(_)
StripZeros(s) ==
  IF s # <<>> /\ s[Len(s)] = "0" THEN StripZeros(SubSeq(s, 1, Len(s) - 1)) ELSE s

ParseFloat(s) ==
  LET signed == s # <<>> /\ Head(s) \in {"+", "-"}
      body == IF signed THEN Tail(s) ELSE s
      dots == {i \in 1..Len(body) : body[i] = "."}
      dot == IF dots = {} THEN Len(body) + 1 ELSE CHOOSE i \in dots : TRUE
      ip == SubSeq(body, 1, dot - 1)
      fp == SubSeq(body, dot + 1, Len(body))
      ok == /\ Cardinality(dots) <= 1
            /\ Len(ip) + Len(fp) > 0
            /\ \A i \in 1..Len(ip) : IsDigit(ip[i])
            /\ \A i \in 1..Len(fp) : IsDigit(fp[i])
  IN  [ok |-> ok,
       neg |-> ok /\ signed /\ Head(s) = "-",
       int |-> IF ok THEN DigitsVal(ip, 0) ELSE 0,
       frac |-> IF ok THEN StripZeros(fp) ELSE <<>>]

\* fmt's decimal text of a non-negative integer
RECURSIVE ItoaNat(_)
ItoaNat(n) ==
  IF n < 10 THEN <<Digits[n + 1]>> ELSE ItoaNat(n \div 10) \o <<Digits[(n % 10) + 1]>>

\* fmt.Println of an int
Itoa(n) == IF n < 0 THEN <<"-">> \o ItoaNat(0 - n) ELSE ItoaNat(n)

\* fmt.Println of a bool
FormatBool(b) == IF b THEN <<"t","r","u","e">> ELSE <<"f","a","l","s","e">>

\* fmt.Println of a Value member of the given kind
Format(kind, slot) ==
  CASE kind = "string" -> slot.str
    [] kind = "int" -> Itoa(slot.int)
    [] kind = "bool" -> FormatBool(slot.bool)

----------------------------------------------------------------------------
(* reflect: struct types, fields and tags *)

TagKeys == {"name", "version", "short", "long", "desc", "required",
            "subcmd", "default", "help", "type", "Help", "Version"}

\* a struct tag with no key set; reflect.StructTag.Get then returns ""
NoTag == [k \in TagKeys |-> Empty]
Tag1(k, v) == [NoTag EXCEPT ![k] = v]
Tag2(k1, v1, k2, v2) == [NoTag EXCEPT ![k1] = v1, ![k2] = v2]
Tag3(k1, v1, k2, v2, k3, v3) == [NoTag EXCEPT ![k1] = v1, ![k2] = v2, ![k3] = v3]

\* reflect.StructField: Name, Type.Name(), Type.Kind(), Anonymous, Tag; Elem is
\* the id of the field's struct type ("": a type without fields, or not a struct).
Fld(name, tname, kind, anon, tag, elem) ==
  [Name |-> name, TypeName |-> tname, Kind |-> kind, Anonymous |-> anon,
   Tag |-> tag, Elem |-> elem]

\* the marker types, embedded
MClifford(tag) == Fld(<<"C","l","i","f","f","o","r","d">>, "Clifford", "struct", TRUE, tag, "")
MVersion(tag) == Fld(<<"V","e","r","s","i","o","n">>, "Version", "struct", TRUE, tag, "")
MHelp(tag) == Fld(<<"H","e","l","p">>, "Help", "struct", TRUE, tag, "")
MShortTag == Fld(<<"S","h","o","r","t","T","a","g">>, "ShortTag", "struct", TRUE, NoTag, "")
MLongTag == Fld(<<"L","o","n","g","T","a","g">>, "LongTag", "struct", TRUE, NoTag, "")
MRequired(tag) == Fld(<<"R","e","q","u","i","r","e","d">>, "Required", "struct", TRUE, tag, "")
MDesc == Fld(<<"D","e","s","c">>, "Desc", "struct", TRUE, Tag1("desc", <<"d">>), "")
\* Subcommand is the marker parseWithArgs sets to true: a bool
MSubcommand(tag) == Fld(<<"S","u","b","c","o","m","m","a","n","d">>, "Subcommand", "bool", TRUE, tag, "")

NameValue == <<"V","a","l","u","e">>
\* the Value member of a field struct
Value(kind, tag) == Fld(NameValue, kind, kind, FALSE, tag, "")
\* a named member whose type is the anonymous struct type elem
Sub(name, elem) == Fld(name, "", "struct", FALSE, NoTag, elem)

----------------------------------------------------------------------------
(* the schemas the model parses into: the target structs of the tests,     *)
(* examples and demo program, one entry per struct type                    *)

\* TestParse_ShortAndLongFlags, Example_flag, TestParse_PositionalAndFlags
FlagsTypes ==
  [ Flags |-> << MClifford(Tag1("name", <<"m","y","t","o","o","l">>)),
                 Sub(<<"N","a","m","e">>, "FlagsName"), Sub(<<"F","l","a","g">>, "FlagsFlag"),
                 Sub(<<"I","n","p","u","t">>, "FlagsInput") >>,
    FlagsName |-> << Value("string", NoTag),
                     MClifford(Tag3("short", <<"n">>, "long", <<"n","a","m","e">>, "desc", <<"d">>)) >>,
    FlagsFlag |-> << Value("bool", NoTag),
                     MClifford(Tag3("short", <<"f">>, "long", <<"f","l","a","g">>, "desc", <<"d">>)) >>,
    FlagsInput |-> << Value("string", NoTag) >> ]

\* TestParse_PositionalArgs, TestParse_DebugPositionalArgs
PosTypes ==
  [ Pos |-> << MClifford(Tag1("name", <<"m","y","t","o","o","l">>)),
               Sub(<<"N","a","m","e">>, "PosName"), Sub(<<"A","g","e">>, "PosAge") >>,
    PosName |-> << Value("string", NoTag), MRequired(NoTag) >>,
    PosAge |-> << Value("string", NoTag) >> ]

\* TestParse_SubcommandRequired, TestPositionalSubcommandHelpExits
RunTypes ==
  [ RunApp |-> << MClifford(Tag1("name", <<"a","p","p">>)), MHelp(NoTag),
                  Sub(<<"R","u","n">>, "Run") >>,
    Run |-> << MSubcommand(NoTag), MDesc, Sub(<<"F","i","l","e">>, "RunFile") >>,
    RunFile |-> << Value("string", NoTag), MRequired(NoTag), MDesc >> ]

\* TestParse_SubcommandDispatch
ServeTypes ==
  [ ServeApp |-> << MClifford(Tag1("name", <<"a","p","p">>)), MHelp(NoTag),
                    Sub(<<"S","e","r","v","e">>, "Serve"), Sub(<<"O","t","h","e","r">>, "Other") >>,
    Serve |-> << MSubcommand(Tag1("name", <<"s","e","r","v","e">>)), Sub(<<"P","o","r","t">>, "ServePort") >>,
    ServePort |-> << Value("int", NoTag), MClifford(Tag1("long", <<"p","o","r","t">>)) >>,
    Other |-> << MSubcommand(Tag1("name", <<"o","t","h","e","r">>)), Sub(<<"F","l","a","g">>, "OtherFlag") >>,
    OtherFlag |-> << Value("bool", NoTag), MClifford(Tag1("short", <<"o">>)) >> ]

\* Example_nested_subcommands
NestedTypes ==
  [ NestedApp |-> << MClifford(Tag1("name", <<"a","p","p">>)), MHelp(NoTag),
                     Sub(<<"R","e","m","o","t","e">>, "Remote") >>,
    Remote |-> << MSubcommand(Tag2("name", <<"r","e","m","o","t","e">>, "desc", <<"d">>)),
                  Sub(<<"A","d","d">>, "RemoteAdd") >>,
    RemoteAdd |-> << MSubcommand(Tag2("name", <<"a","d","d">>, "desc", <<"d">>)),
                     Sub(<<"N","a","m","e">>, "RemoteAddName") >>,
    RemoteAddName |-> << Value("string", NoTag),
                         MClifford(Tag2("long", <<"n","a","m","e">>, "desc", <<"d">>)) >> ]

\* the demo program's CLIArgs (test/main.go)
MainTypes ==
  [ CLIArgs |-> << MClifford(Tag1("name", <<"a","p","p">>)), MHelp(NoTag),
                   MVersion(Tag1("version", <<"0",".","1",".","0">>)), MDesc,
                   Sub(<<"S","e","r","v","e">>, "MainServe") >>,
    MainServe |-> << MSubcommand(Tag1("name", <<"s","e","r","v","e","r">>)), MHelp(NoTag), MDesc,
                     Sub(<<"P","o","r","t">>, "MainPort"), Sub(<<"V","e","r","b","o","s","e">>, "MainVerbose") >>,
    MainPort |-> << Value("int", Tag1("default", <<"8","0","8","0">>)),
                    MClifford(Tag1("long", <<"p","o","r","t">>)), MDesc >>,
    MainVerbose |-> << Value("bool", NoTag),
                       MClifford(Tag3("short", <<"v">>, "long", <<"v","e","r","b","o","s","e">>, "desc", <<"d">>)) >> ]

\* a parent with its own flag field, a subcommand whose fields reuse the flag
\* name, and a second subcommand with a required positional field
\* (Example_subcommand with a parent option)
SplitTypes ==
  [ SplitApp |-> << MClifford(Tag1("name", <<"a","p","p">>)),
                    Sub(<<"L","e","v","e","l">>, "SplitLevel"),
                    Sub(<<"S","e","r","v","e">>, "SplitServe"), Sub(<<"S","t","a","t","u","s">>, "SplitStatus") >>,
    SplitLevel |-> << Value("int", NoTag),
                      MClifford(Tag2("short", <<"p">>, "long", <<"p","o","r","t">>)) >>,
    SplitServe |-> << MSubcommand(NoTag),
                      Sub(<<"P","o","r","t">>, "SplitPort"), Sub(<<"F","i","l","e">>, "SplitFile") >>,
    SplitPort |-> << Value("int", Tag1("default", <<"8","0","8","0">>)),
                     MClifford(Tag2("short", <<"p">>, "long", <<"p","o","r","t">>)) >>,
    SplitFile |-> << Value("string", NoTag) >>,
    SplitStatus |-> << MSubcommand(NoTag), Sub(<<"I","d">>, "SplitId") >>,
    SplitId |-> << Value("string", NoTag), MRequired(NoTag) >> ]

\* required fields, with and without defaults (Example_defaults,
\* Example_error_types, TestParse_MissingRequired)
ReqTypes ==
  [ Req |-> << MClifford(Tag1("name", <<"a","p","p">>)),
               Sub(<<"N","a","m","e">>, "ReqName"), Sub(<<"K","e","y">>, "ReqKey"),
               Sub(<<"P","o","r","t">>, "ReqPort"), Sub(<<"M","o","d","e">>, "ReqMode") >>,
    ReqName |-> << Value("string", NoTag), MRequired(Tag1("required", <<"t","r","u","e">>)) >>,
    ReqKey |-> << Value("string", NoTag), MRequired(NoTag), MLongTag >>,
    ReqPort |-> << Value("int", Tag1("default", <<"8","0","8","0">>)), MRequired(NoTag),
                   MClifford(Tag1("long", <<"p","o","r","t">>)) >>,
    ReqMode |-> << Value("string", Tag1("default", <<"m">>)) >> ]

\* TestParse_HelpFlag: flag-style help next to a required positional field
HelpTypes ==
  [ HelpApp |-> << MClifford(Tag1("name", <<"m","y","t","o","o","l">>)), MHelp(NoTag),
                   Sub(<<"N","a","m","e">>, "HelpName") >>,
    HelpName |-> << Value("string", NoTag), MRequired(NoTag) >> ]

\* TestFlagHelpNotAllowedForSubcmd: help exposed as a subcommand only
SubHelpTypes ==
  [ SubApp |-> << MClifford(Tag1("name", <<"a","p","p">>)), MHelp(Tag1("type", <<"s","u","b","c","m","d">>)),
                  Sub(<<"S","e","r","v","e">>, "SubServe") >>,
    SubServe |-> << MSubcommand(Tag1("name", <<"s","e","r","v","e">>)) >> ]

\* TestBothHelpModesExit: help exposed both ways
BothTypes ==
  [ BothApp |-> << MClifford(Tag1("name", <<"a","p","p">>)), MHelp(Tag1("type", <<"b","o","t","h">>)) >> ]

\* TestParse_UnsupportedFieldType: a flag field whose Value is a []string
UnsupTypes ==
  [ Unsup |-> << MClifford(Tag1("name", <<"m","y","a","p","p">>)), Sub(<<"O","p","t">>, "UnsupOpt") >>,
    UnsupOpt |-> << Value("slice", NoTag), MClifford(Tag1("long", <<"o","p","t">>)) >> ]

\* Example_defaults: one optional flag field with a default
DefaultsTypes ==
  [ Defaults |-> << MClifford(Tag2("name", <<"a","p","p">>, "desc", <<"d">>)),
                    Sub(<<"P","o","r","t">>, "DefaultsPort") >>,
    DefaultsPort |-> << Value("int", Tag1("default", <<"8","0","8","0">>)),
                        MClifford(Tag2("long", <<"p","o","r","t">>, "desc", <<"d">>)) >> ]

\* a target with a float64 field before a string field, both positional
RatioTypes ==
  [ Ratio |-> << MClifford(Tag1("name", <<"a","p","p">>)),
                 Sub(<<"R","a","t","e">>, "RatioRate"), Sub(<<"U","n","i","t">>, "RatioUnit") >>,
    RatioRate |-> << Value("float64", NoTag) >>,
    RatioUnit |-> << Value("string", NoTag) >> ]

\* a target whose root declares a positional field beside a subcommand, and
\* whose subcommand declares a required positional field beside a subcommand
\* of its own
MixedTypes ==
  [ Mixed |-> << MClifford(Tag1("name", <<"a","p","p">>)), MHelp(NoTag),
                 Sub(<<"D","i","r">>, "MixedDir"), Sub(<<"B","u","i","l","d">>, "MixedBuild") >>,
    MixedDir |-> << Value("string", NoTag) >>,
    MixedBuild |-> << MSubcommand(NoTag),
                      Sub(<<"I","n","p","u","t">>, "MixedInput"), Sub(<<"S","t","e","p">>, "MixedStep") >>,
    MixedInput |-> << Value("string", NoTag), MRequired(NoTag) >>,
    MixedStep |-> << MSubcommand(NoTag) >> ]

Types ==
  FlagsTypes @@ PosTypes @@ RunTypes @@ ServeTypes @@ NestedTypes @@
  MainTypes @@ SplitTypes @@ ReqTypes @@ HelpTypes @@ SubHelpTypes @@
  BothTypes @@ UnsupTypes @@ DefaultsTypes @@ RatioTypes @@ MixedTypes

TypeIds == DOMAIN Types

Schemas == {FlagsTypes, PosTypes, RunTypes, ServeTypes, NestedTypes,
            MainTypes, SplitTypes, ReqTypes, HelpTypes, SubHelpTypes,
            BothTypes, UnsupTypes, DefaultsTypes, RatioTypes, MixedTypes}

\* the struct types of the schema that root belongs to
TypesOf(root) == DOMAIN (CHOOSE S \in Schemas : root \in DOMAIN S)

\* reflect.Type.NumField / Field(i) of the struct type with id t
TypeFields(t) == IF t = "" THEN <<>> ELSE Types[t]

\* the root targets handed to Parse
Roots == {"Flags", "Pos", "RunApp", "ServeApp", "NestedApp", "CLIArgs",
          "SplitApp", "Req", "HelpApp", "SubApp", "BothApp", "Unsup",
          "Defaults", "Ratio", "Mixed"}

\* the argument words tried against each root
Words(root) ==
  CASE root = "Flags" -> { <<"-","-","n","a","m","e">>, <<"-","n">>, <<"-","-","f","l","a","g">>, <<"-","f">>, <<"a","l">>, <<"0">>, StrHelp }
    [] root = "Pos" -> { <<"j","u","n","k">>, DashDash, <<"a","l">>, <<"3","0">>, <<"-","x">> }
    [] root = "RunApp" -> { <<"r","u","n">>, <<"f","i">>, StrHelp, LongHelpFlag, <<"-","x">> }
    [] root = "ServeApp" -> { <<"s","e","r","v","e">>, <<"o","t","h","e","r">>, <<"s","r","v","e">>, <<"-","-","p","o","r","t">>, <<"9","0">>, <<"-","o">> }
    [] root = "NestedApp" -> { <<"r","e","m","o","t","e">>, <<"a","d","d">>, <<"-","-","n","a","m","e">>, <<"o","r">>, ShortHelpFlag }
    [] root = "CLIArgs" -> { <<"s","e","r","v","e","r">>, <<"s","e","r","v","e">>, <<"-","-","p","o","r","t">>, <<"8","0">>, <<"-","v">>, VersionFlag }
    [] root = "SplitApp" -> { <<"s","e","r","v","e">>, <<"s","t","a","t","u","s">>, <<"-","-","p","o","r","t">>, <<"-","p">>, <<"9">>, <<"s","t">> }
    [] root = "Req" -> { <<"-","-","k","e","y">>, <<"-","-","p","o","r","t">>, <<"a","l">>, <<"7">>, DashDash }
    [] root = "HelpApp" -> { LongHelpFlag, ShortHelpFlag, StrHelp, <<"a","l">> }
    [] root = "SubApp" -> { <<"s","e","r","v","e">>, LongHelpFlag, ShortHelpFlag, StrHelp }
    [] root = "BothApp" -> { LongHelpFlag, StrHelp, <<"a","l">> }
    [] root = "Unsup" -> { <<"-","-","o","p","t">>, <<"v">> }
    [] root = "Defaults" -> { <<"-","-","p","o","r","t">>, <<"8","0">>, <<"0","7">>, <<"-","5">> }
    [] root = "Ratio" -> { <<"1",".","5">>, <<"x">>, <<"k","g">> }
    [] root = "Mixed" -> { <<"b","u","i","l","d">>, <<"s","t","e","p">>, <<"a","l">>, <<"-","x">>, ShortHelpFlag }

RECURSIVE SeqsUpTo(_, _)
\* all sequences over S of length at most n
SeqsUpTo(S, n) ==
  IF n = 0 THEN { <<>> }
  ELSE LET shorter == SeqsUpTo(S, n - 1)
       IN  shorter \cup { Append(s, w) : s \in shorter, w \in S }

----------------------------------------------------------------------------
(* internal/common *)

EmbeddedKeys == <<"short", "long", "desc", "required", "subcmd">>
DirectKeys == <<"default", "desc", "required", "short", "long", "subcmd">>

RECURSIVE CopyKeys(_, _, _)
\* for _, key := range keys { if val := field.Tag.Get(key); val != "" { tags[key] = val } }
CopyKeys(tags, tag, keys) ==
  IF keys = <<>> THEN tags
  ELSE CopyKeys(IF tag[Head(keys)] # Empty
                  THEN [tags EXCEPT ![Head(keys)] = tag[Head(keys)]]
                  ELSE tags,
                tag, Tail(keys))

\* the body of GetTagsFromEmbedded's loop for one field of the type
TagsOfField(tags, field, fieldName) ==
  IF field.Anonymous
    THEN CASE field.TypeName = "ShortTag" ->
                [tags EXCEPT !["short"] = ToLower(<<fieldName[1]>>)]
           [] field.TypeName = "LongTag" ->
                [tags EXCEPT !["long"] = ToLower(fieldName)]
           [] field.TypeName = "Required" ->
                [tags EXCEPT !["required"] = StrTrue]
           [] field.TypeName = "Desc" ->
                IF field.Tag["desc"] # Empty
                  THEN [tags EXCEPT !["desc"] = field.Tag["desc"]]
                  ELSE tags
           [] field.TypeName = "Subcommand" ->
                [tags EXCEPT !["subcmd"] = StrTrue]
           [] OTHER -> CopyKeys(tags, field.Tag, EmbeddedKeys)
    ELSE CopyKeys(tags, field.Tag, DirectKeys)

RECURSIVE TagsLoop(_, _, _)
TagsLoop(tags, fields, fieldName) ==
  IF fields = <<>> THEN tags
  ELSE TagsLoop(TagsOfField(tags, Head(fields), fieldName), Tail(fields), fieldName)

\* GetTagsFromEmbedded(t, fieldName); a key the map lacks reads as ""
GetTagsFromEmbedded(t, fieldName) == TagsLoop(NoTag, TypeFields(t), fieldName)

RECURSIVE IndexFrom(_, _, _)
IndexFrom(args, s, i) ==
  IF i > Len(args) THEN 0
  ELSE IF args[i] = s THEN i
  ELSE IndexFrom(args, s, i + 1)

\* ArgsIndexOf: the position of the first occurrence of s in args, 0 if none
\* (Go: the 0-based index, -1 if none)
ArgsIndexOf(args, s) == IndexFrom(args, s, 1)

\* the meta names as Go strings
MetaName(s) == IF s = "Help" THEN <<"H","e","l","p">>
               ELSE <<"V","e","r","s","i","o","n">>

\* a lookup that only consults the Clifford embedding
MetaArgEnabledCliffordOnly(s, t) ==
  \E i \in 1..Len(TypeFields(t)) :
    LET field == TypeFields(t)[i]
    IN  /\ field.TypeName = "Clifford"
        /\ (field.Tag[s] # Empty \/ field.Name = MetaName(s))

\* MetaArgEnabled(s, target), s being "Help" or "Version"
MetaArgEnabled(s, t) ==
  \E i \in 1..Len(TypeFields(t)) :
    LET field == TypeFields(t)[i]
    IN  IF field.TypeName # "Clifford"
          THEN field.TypeName = s
          ELSE field.Tag[s] # Empty \/ field.Name = MetaName(s)

----------------------------------------------------------------------------
(* core/parse.go: errors and the token classifier *)

\* a Go map as a function; a missing key is outside its domain
EmptyMap == [k \in {} |-> Empty]
MapPut(m, k, v) == [x \in DOMAIN m \cup {k} |-> IF x = k THEN v ELSE m[x]]

NoError == [Kind |-> "nil", Field |-> Empty, Name |-> Empty,
            Suggestion |-> Empty, Type |-> ""]
NewMissingArg(field) == [NoError EXCEPT !.Kind = "MissingArg", !.Field = field]
NewUnknownSubcommand(name, suggestion) ==
  [NoError EXCEPT !.Kind = "UnknownSubcommand", !.Name = name,
                  !.Suggestion = suggestion]
NewUnsupportedField(field, typ) ==
  [NoError EXCEPT !.Kind = "UnsupportedFieldType", !.Field = field, !.Type = typ]
\* the fmt.Errorf / ParseError values the help and version builders return
BuilderError == [NoError EXCEPT !.Kind = "Error"]

\* a classifier that takes only a double dash for the mark of a flag
IsFlagLikeLong(arg) == HasPrefix(arg, DashDash)

\* strings.HasPrefix(arg, "--") || strings.HasPrefix(arg, "-")
IsFlagLike(arg) == HasPrefix(arg, DashDash) \/ HasPrefix(arg, Dash)

\* a first loop that records the flags and lets no flag take a value
ScanArgsFlagsOnly(args, i, m) ==
  LET flags == {k \in i..Len(args) : IsFlagLike(args[k])}
  IN  [m EXCEPT
         !.argIndex = [f \in DOMAIN m.argIndex \cup {args[k] : k \in flags} |->
                         IF \E k \in flags : args[k] = f
                           THEN CHOOSE k \in flags :
                                  /\ args[k] = f
                                  /\ \A h \in flags : args[h] = f => h <= k
                           ELSE m.argIndex[f]],
         !.used = m.used \cup flags]

RECURSIVE ScanArgs(_, _, _)
\* the first loop of buildArgMaps, from position i on; valueIdx records where
\* each argMap entry was read from and is used by no operation of the parser
ScanArgs(args, i, m) ==
  IF i > Len(args) THEN m
  ELSE IF IsFlagLike(args[i])
    THEN LET flagged == [m EXCEPT !.argIndex = MapPut(m.argIndex, args[i], i),
                                  !.used = m.used \cup {i}]
         IN  IF i + 1 <= Len(args) /\ ~HasPrefix(args[i + 1], Dash)
               THEN ScanArgs(args, i + 2,
                      [flagged EXCEPT
                         !.argMap = MapPut(m.argMap, args[i], args[i + 1]),
                         !.valueIdx = MapPut(m.valueIdx, args[i], i + 1),
                         !.used = flagged.used \cup {i + 1}])
               ELSE ScanArgs(args, i + 1, flagged)
    ELSE ScanArgs(args, i + 1, m)

RECURSIVE Unused(_, _, _)
\* the positions of args, from i on, that the first loop left unused
Unused(args, used, i) ==
  IF i > Len(args) THEN <<>>
  ELSE IF i \in used THEN Unused(args, used, i + 1)
  ELSE <<i>> \o Unused(args, used, i + 1)

\* buildArgMaps(args): argMap, argIndex, positionals, positionalIdxs
buildArgMaps(args) ==
  LET m == ScanArgs(args, 1, [argMap |-> EmptyMap, argIndex |-> EmptyMap,
                              valueIdx |-> EmptyMap, used |-> {}])
      idxs == Unused(args, m.used, 1)
  IN  [argMap |-> m.argMap, argIndex |-> m.argIndex, valueIdx |-> m.valueIdx,
       positionals |-> [k \in 1..Len(idxs) |-> args[idxs[k]]],
       positionalIdxs |-> idxs]

----------------------------------------------------------------------------
(* core/parse.go: the suggestion engine *)

\* a threshold that does not grow with the name
maxFirst(a, b) == a

max(a, b) == IF a > b THEN a ELSE b
abs(a) == IF a < 0 THEN 0 - a ELSE a

\* a check that finds no transposition
NeverTransposition(a, b) == FALSE

\* isTransposition(a, b): equal length, exactly two differing positions whose
\* characters are swapped
isTransposition(a, b) ==
  IF Len(a) # Len(b) \/ Len(a) < 2 THEN FALSE
  ELSE LET diff == {i \in 1..Len(a) : a[i] # b[i]}
       IN  /\ Cardinality(diff) = 2
           /\ LET d0 == CHOOSE i \in diff : \A j \in diff : i <= j
                  d1 == CHOOSE i \in diff : \A j \in diff : j <= i
              IN  a[d0] = b[d1] /\ a[d1] = b[d0]

\* the member of a one-element set: the value of a variable after its
\* assignment
Only(S) == CHOOSE x \in S : TRUE

RECURSIVE LevRow(_, _, _, _)
\* the inner loop of levenshtein for one character ai of a: curr holds
\* curr[0..j-1] (as positions 1..j) and is extended up to curr[lb]
LevRow(ai, b, prev, curr) ==
  LET j == Len(curr)
  IN  IF j > Len(b) THEN curr
      ELSE LET cost == IF ai # b[j] THEN 1 ELSE 0
               del == prev[j + 1] + 1
               ins == curr[j] + 1
               sub == prev[j] + cost
               m1 == IF ins < del THEN ins ELSE del
               m2 == IF sub < m1 THEN sub ELSE m1
           IN  Only({LevRow(ai, b, prev, next) : next \in {Append(curr, m2)}})

RECURSIVE LevRows(_, _, _, _)
\* the outer loop of levenshtein from row i on; prev is row i-1
LevRows(a, b, i, prev) ==
  IF i > Len(a) THEN prev
  ELSE Only({LevRows(a, b, i + 1, row) : row \in {LevRow(a[i], b, prev, <<i>>)}})

\* levenshtein(a, b)
levenshtein(a, b) ==
  IF a = b THEN 0
  ELSE IF Len(a) = 0 THEN Len(b)
  ELSE IF Len(b) = 0 THEN Len(a)
  ELSE LevRows(a, b, 1, [j \in 1..(Len(b) + 1) |-> j - 1])[Len(b) + 1]

\* a first loop that accepts only a candidate equal to low
PrefixLoopExact(low, candidates) ==
  LET hits == {k \in 1..Len(candidates) : ToLower(candidates[k]) = low}
  IN  IF hits = {} THEN <<>>
      ELSE <<candidates[CHOOSE k \in hits : \A h \in hits : k <= h]>>

RECURSIVE PrefixLoop(_, _)
\* the first loop of closestMatch: the first candidate whose lower-cased form
\* starts with low, as a one-element sequence; <<>> if there is none
PrefixLoop(low, candidates) ==
  IF candidates = <<>> THEN <<>>
  ELSE IF HasPrefix(ToLower(Head(candidates)), low) THEN <<Head(candidates)>>
  ELSE PrefixLoop(low, Tail(candidates))

RECURSIVE DistLoop(_, _, _, _)
\* the second loop of closestMatch and the threshold test after it
DistLoop(low, candidates, best, bestDist) ==
  IF candidates = <<>>
    THEN IF bestDist >= 0 /\ bestDist <= max(2, Len(low) \div 3)
           THEN best ELSE Empty
  ELSE LET c == Head(candidates)
           lc == ToLower(c)
       IN  IF abs(Len(lc) - Len(low)) > 3
             THEN DistLoop(low, Tail(candidates), best, bestDist)
           ELSE IF isTransposition(low, lc) THEN c
           ELSE LET d == levenshtein(low, lc)
                IN  IF bestDist = -1 \/ d < bestDist
                      THEN DistLoop(low, Tail(candidates), c, d)
                      ELSE DistLoop(low, Tail(candidates), best, bestDist)

\* closestMatch(target, candidates)
closestMatch(target, candidates) ==
  IF target = Empty \/ Len(candidates) = 0 THEN Empty
  ELSE LET low == ToLower(target)
           pre == PrefixLoop(low, candidates)
       IN  IF pre # <<>> THEN pre[1]
           ELSE DistLoop(low, candidates, Empty, -1)

----------------------------------------------------------------------------
(* the help and version builders, as far as the parser depends on them *)

\* BuildHelp fails when no field of the target carries a `name` tag
BuildHelpFails(t) ==
  ~\E i \in 1..Len(TypeFields(t)) : TypeFields(t)[i].Tag["name"] # Empty

\* BuildVersion fails when both the Clifford embedding and the Version field
\* carry a `version` tag
BuildVersionFails(t) ==
  /\ \E i \in 1..Len(TypeFields(t)) :
       /\ TypeFields(t)[i].TypeName = "Clifford"
       /\ TypeFields(t)[i].Tag["version"] # Empty
  /\ \E i \in 1..Len(TypeFields(t)) :
       /\ TypeFields(t)[i].TypeName # "Clifford"
       /\ TypeFields(t)[i].Name = MetaName("Version")
       /\ TypeFields(t)[i].Tag["version"] # Empty

----------------------------------------------------------------------------
(* core/parse.go: reading the schema *)

RECURSIVE FirstHelpField(_, _)
\* the first field of type Help, 0 if there is none
FirstHelpField(fields, i) ==
  IF i > Len(fields) THEN 0
  ELSE IF fields[i].TypeName = "Help" THEN i
  ELSE FirstHelpField(fields, i + 1)

\* the help exposure mode parseFields reads from the Help embedding
HelpMode(t) ==
  LET i == FirstHelpField(TypeFields(t), 1)
  IN  IF i = 0 THEN <<"f","l","a","g">>
      ELSE IF TypeFields(t)[i].Tag["help"] # Empty THEN TypeFields(t)[i].Tag["help"]
      ELSE IF TypeFields(t)[i].Tag["type"] # Empty THEN TypeFields(t)[i].Tag["type"]
      ELSE <<"f","l","a","g">>

\* common.GetTagsFromEmbedded(field.Type, field.Name) for every field of every
\* struct type of the schemas
FieldsTags(fields) ==
  [i \in 1..Len(fields) |-> GetTagsFromEmbedded(fields[i].Elem, fields[i].Name)]

TagsTable == [t \in TypeIds |-> FieldsTags(Types[t])]

\* the tags of field i of struct type t
FieldTags(t, i) == TagsTable[t][i]

\* field i of t is a struct whose tags mark it as a subcommand
IsSubcommandField(t, i) ==
  /\ TypeFields(t)[i].Kind = "struct"
  /\ FieldTags(t, i)["subcmd"] = StrTrue

\* `name := tags["name"]; if name == "" { name = strings.ToLower(field.Name) }`
NameOrLower(name, fieldName) == IF name = Empty THEN ToLower(fieldName) ELSE name

\* the name a subcommand field is matched by
SubcommandName(t, i) ==
  NameOrLower(FieldTags(t, i)["name"], TypeFields(t)[i].Name)

RECURSIVE SubcommandsFrom(_, _)
\* the subcommand fields of t from field i on, in declaration order
SubcommandsFrom(t, i) ==
  IF i > Len(TypeFields(t)) THEN <<>>
  ELSE IF IsSubcommandField(t, i) THEN <<i>> \o SubcommandsFrom(t, i + 1)
  ELSE SubcommandsFrom(t, i + 1)

SubcommandsTable == [t \in TypeIds |-> SubcommandsFrom(t, 1)]

\* the subcommand fields of t, in declaration order
Subcommands(t) == SubcommandsTable[t]

RECURSIVE SubNamesFrom(_, _)
\* `subNames = append(subNames, name)` for the subcommand fields of t from
\* field i on
SubNamesFrom(t, i) ==
  IF i > Len(TypeFields(t)) THEN <<>>
  ELSE IF IsSubcommandField(t, i) THEN <<SubcommandName(t, i)>> \o SubNamesFrom(t, i + 1)
  ELSE SubNamesFrom(t, i + 1)

SubNamesTable == [t \in TypeIds |-> SubNamesFrom(t, 1)]

\* subNames once the loop over the fields has run to its end
SubNames(t) == SubNamesTable[t]

\* the least member of a set of positions, 0 if it is empty: where a loop
\* that breaks on its first hit stops
FirstOf(hits) ==
  IF hits = {} THEN 0 ELSE CHOOSE k \in hits : \A j \in hits : k <= j

\* the k-th subcommand field of t, 0 for k = 0
SubcommandAt(t, k) == IF k = 0 THEN 0 ELSE Subcommands(t)[k]

\* the first subcommand field of t whose name is tok, 0 if there is none
MatchSubcommand(t, tok) ==
  SubcommandAt(t, FirstOf({k \in 1..Len(SubNames(t)) : SubNames(t)[k] = tok}))

\* the first subcommand field of t named tok whose tags advertise help as
\* `subcmd` or `both`, 0 if there is none
HelpSubcommand(t, tok) ==
  SubcommandAt(t, FirstOf({k \in 1..Len(SubNames(t)) :
                             /\ SubNames(t)[k] = tok
                             /\ FieldTags(t, Subcommands(t)[k])["help"]
                                  \in { <<"s","u","b","c","m","d">>, <<"b","o","t","h">> }}))

\* reflect.Value.FieldByName("Value"): the position of the member, 0 if the
\* struct has none (the embedded marker types declare no members to promote)
ValueField(t) ==
  LET hits == {i \in 1..Len(TypeFields(t)) : TypeFields(t)[i].Name = NameValue}
  IN  IF hits = {} THEN 0 ELSE CHOOSE i \in hits : TRUE

\* a value slot; only the component of the member's kind is ever written
ZeroValue == [str |-> Empty, int |-> 0, bool |-> FALSE,
              flt |-> [neg |-> FALSE, int |-> 0, frac |-> Empty]]

\* a switch that writes a mark into the slot when the conversion fails
SetValueMarking(slot, kind, value) ==
  CASE kind = "string" -> [slot EXCEPT !.str = value]
    [] kind = "int" ->
         [slot EXCEPT !.int = IF Atoi(value).ok THEN Atoi(value).val ELSE -1]
    [] kind = "float64" ->
         IF ParseFloat(value).ok
           THEN [slot EXCEPT !.flt = [neg |-> ParseFloat(value).neg,
                                        int |-> ParseFloat(value).int,
                                        frac |-> ParseFloat(value).frac]]
           ELSE [slot EXCEPT !.flt = [neg |-> TRUE, int |-> 0, frac |-> Empty]]
    [] kind = "bool" ->
         [slot EXCEPT !.bool = ParseBool(value).ok => ParseBool(value).val]

\* the switch on valField.Kind(): the slot after the assignment
SetValue(slot, kind, value) ==
  CASE kind = "string" -> [slot EXCEPT !.str = value]
    [] kind = "int" ->
         IF Atoi(value).ok THEN [slot EXCEPT !.int = Atoi(value).val] ELSE slot
    [] kind = "float64" ->
         IF ParseFloat(value).ok
           THEN [slot EXCEPT !.flt = [neg |-> ParseFloat(value).neg,
                                        int |-> ParseFloat(value).int,
                                        frac |-> ParseFloat(value).frac]]
           ELSE slot
    [] kind = "bool" ->
         IF ParseBool(value).ok THEN [slot EXCEPT !.bool = ParseBool(value).val]
         ELSE slot
    [] OTHER -> slot

SupportedKinds == {"string", "int", "float64", "bool"}

\* a rule order that lets a value-less long flag win over a short flag's value
FlagRulePresenceFirst(tags, m) ==
  LET longFlag == DashDash \o tags["long"]
      shortFlag == Dash \o tags["short"]
  IN  IF tags["long"] # Empty /\ longFlag \in DOMAIN m.argMap THEN "long"
      ELSE IF tags["long"] # Empty /\ longFlag \in DOMAIN m.argIndex THEN "longflag"
      ELSE IF tags["short"] # Empty /\ shortFlag \in DOMAIN m.argMap THEN "short"
      ELSE IF tags["short"] # Empty /\ shortFlag \in DOMAIN m.argIndex THEN "shortflag"
      ELSE ""

\* the flag rules of parseFields for one field with tags `tags`, given the
\* classification m of the scope's args: which of the four rules matches
\* first ("": none)
FlagRule(tags, m) ==
  LET longFlag == DashDash \o tags["long"]
      shortFlag == Dash \o tags["short"]
  IN  IF tags["long"] # Empty /\ longFlag \in DOMAIN m.argMap THEN "long"
      ELSE IF tags["short"] # Empty /\ shortFlag \in DOMAIN m.argMap THEN "short"
      ELSE IF tags["long"] # Empty /\ longFlag \in DOMAIN m.argIndex THEN "longflag"
      ELSE IF tags["short"] # Empty /\ shortFlag \in DOMAIN m.argIndex THEN "shortflag"
      ELSE ""

\* `!found && tags["short"] == "" && tags["long"] == ""`, with a token left
\* under the positional cursor
TakesPositional(tags, m, positionalIndex) ==
  /\ tags["short"] = Empty
  /\ tags["long"] = Empty
  /\ positionalIndex < Len(m.positionals)

\* a default looked up under a key the tags never carry
HasDefaultNever(tags) == tags["name"] # Empty

\* `if d, ok := tags["default"]; ok && d != ""`
HasDefault(tags) == tags["default"] # Empty

\* a required test that reads a key the tags never carry
IsRequiredNever(tags) == tags["name"] = StrTrue

\* `tags["required"] == "true"`
IsRequired(tags) == tags["required"] = StrTrue

\* the precedence chain of parseFields for one field: `how` names the rule
\* that matched ("": not found), `value` the string it yields and `idx` the
\* position in args the string was read from (0: no token)
Resolve(tags, m, positionalIndex) ==
  LET longFlag == DashDash \o tags["long"]
      shortFlag == Dash \o tags["short"]
      rule == FlagRule(tags, m)
      hit(how, value, idx, cursor) ==
        [found |-> how # "", how |-> how, value |-> value, idx |-> idx,
         positionalIndex |-> cursor]
  IN  CASE rule = "long" ->
             hit(rule, m.argMap[longFlag], m.valueIdx[longFlag], positionalIndex)
        [] rule = "short" ->
             hit(rule, m.argMap[shortFlag], m.valueIdx[shortFlag], positionalIndex)
        [] rule = "longflag" ->
             hit(rule, StrTrue, m.argIndex[longFlag], positionalIndex)
        [] rule = "shortflag" ->
             hit(rule, StrTrue, m.argIndex[shortFlag], positionalIndex)
        [] OTHER ->
             IF TakesPositional(tags, m, positionalIndex)
               THEN hit("positional", m.positionals[positionalIndex + 1],
                        m.positionalIdxs[positionalIndex + 1], positionalIndex + 1)
             ELSE IF HasDefault(tags)
               THEN hit("default", tags["default"], 0, positionalIndex)
             ELSE hit("", Empty, 0, positionalIndex)

----------------------------------------------------------------------------
(* the parser as a state machine *)

VARIABLES
  root,             \* the struct type Parse was called with
  input,            \* os.Args[1:]
  pc,               \* where the call stands
  target,           \* the struct type of the scope being parsed
  args,             \* the args of the current parseWithArgs / parseFields call
  off,              \* how many tokens of input precede args
  fi,               \* parseFields: the field the loop is at
  positionalIndex,  \* parseFields: the positional cursor
  cont,             \* the subcommand parseWithArgs goes on with after parseFields
  vals,             \* the Value member of every field struct
  selected,         \* the embedded Subcommand member of every struct
  result,           \* "running", "ok" (nil), "error" or "exit" (osExit(0))
  err,              \* the error returned
  out,              \* what was printed before osExit
  bound,            \* per field struct: the rule, string and input position
                    \* of its last binding
  path,             \* the subcommands matched so far, outermost first, each
                    \* with the input position of its token
  run,              \* which call of Parse on (root, input) this is: 1 or 2
  prev,             \* what the first call ended with
  mistyped,         \* closestMatch called on its own: its argument target
  declared,         \* closestMatch called on its own: its argument candidates
  suggested         \* closestMatch called on its own: what it returned

vars == <<root, input, pc, target, args, off, fi, positionalIndex, cont, vals,
          selected, result, err, out, bound, path, run, prev,
          mistyped, declared, suggested>>

NoCont == [sub |-> "", name |-> Empty, subArgs |-> <<>>, subOff |-> 0]
NoOut == [what |-> "none", of |-> ""]
Unbound == [how |-> "", str |-> Empty, idx |-> 0]

\* what a call that has not returned has produced: nothing
NoOutcome(r) ==
  [result |-> "running", err |-> NoError,
   selected |-> [t \in TypesOf(r) |-> FALSE],
   vals |-> [t \in TypesOf(r) |-> ZeroValue],
   out |-> NoOut, classified |-> buildArgMaps(<<>>)]

Init ==
  /\ root \in Roots
  /\ input \in SeqsUpTo(Words(root), MaxArgs)
  /\ pc = "parseWithArgs"
  /\ target = root
  /\ args = input
  /\ off = 0
  /\ fi = 0
  /\ positionalIndex = 0
  /\ cont = NoCont
  /\ vals = [t \in TypesOf(root) |-> ZeroValue]
  /\ selected = [t \in TypesOf(root) |-> FALSE]
  /\ result = "running"
  /\ err = NoError
  /\ out = NoOut
  /\ bound = [t \in TypesOf(root) |-> Unbound]
  /\ path = <<>>
  /\ run = 1
  /\ prev = NoOutcome(root)
  /\ mistyped = Empty
  /\ declared = <<>>
  /\ suggested = Empty

\* return e
Fail(e) ==
  /\ pc' = "done"
  /\ result' = "error"
  /\ err' = e
  /\ out' = out

\* fmt.Println(text); osExit(0)
Exit(what, of) ==
  /\ pc' = "done"
  /\ result' = "exit"
  /\ err' = err
  /\ out' = [what |-> what, of |-> of]

\* no normalisation: the separator and the tokens before it stay
NormalizeNot(a) == a

\* args after `if i := common.ArgsIndexOf(args, "--"); i >= 0 { args = args[i+1:] }`
Normalize(a) ==
  IF ArgsIndexOf(a, DashDash) > 0
    THEN SubSeq(a, ArgsIndexOf(a, DashDash) + 1, Len(a))
    ELSE a

\* a parent that is resolved against the whole argument list of its scope
RootArgsWhole(a, posIdx) == a

\* a parent slice that still holds the subcommand token
RootArgsThrough(a, posIdx) == SubSeq(a, 1, posIdx)

\* rootArgs := args[:posIdx], posIdx being the position of the subcommand token
RootArgs(a, posIdx) == SubSeq(a, 1, posIdx - 1)

\* a slice start that only the first call of Parse computes: later calls hand
\* the subcommand the whole list
SubArgsFirstCall(a, posIdx) ==
  IF run = 1 THEN SubSeq(a, posIdx + 1, Len(a)) ELSE a

\* a slice that keeps the subcommand token
SubArgsWithToken(a, posIdx) == SubSeq(a, posIdx, Len(a))

\* subArgs := args[posIdx+1:]
SubArgs(a, posIdx) == SubSeq(a, posIdx + 1, Len(a))

\* parseWithArgs up to its call of parseFields
ParseWithArgs ==
  /\ pc = "parseWithArgs"
  /\ \E nargs \in {Normalize(args)} : \E m \in {buildArgMaps(nargs)} :
     LET noff == off + (Len(args) - Len(nargs))
         first == m.positionals[1]
         second == m.positionals[2]
         hit == MatchSubcommand(target, first)
         posIdx == m.positionalIdxs[1]
         \* parseFields(target, a), then go on with c
         Fields(a, c, p) ==
           /\ pc' = "parseFields"
           /\ args' = a
           /\ off' = noff
           /\ cont' = c
           /\ path' = p
           /\ UNCHANGED <<result, err, out>>
         Stop == UNCHANGED <<args, off, cont, path>>
     IN  IF Len(m.positionals) > 0 /\ first = StrHelp /\ Len(m.positionals) = 1
           THEN /\ IF BuildHelpFails(target) THEN Fail(BuilderError)
                   ELSE Exit("help", target)
                /\ Stop
         ELSE IF Len(m.positionals) > 0 /\ first = StrHelp
                 /\ HelpSubcommand(target, second) # 0
           THEN /\ Exit("subhelp", TypeFields(target)[HelpSubcommand(target, second)].Elem)
                /\ Stop
         ELSE IF Len(m.positionals) > 0 /\ first = StrHelp
                 /\ Len(SubNames(target)) > 0
           THEN /\ Fail(NewUnknownSubcommand(second,
                                             closestMatch(second, SubNames(target))))
                /\ Stop
         ELSE IF Len(m.positionals) > 0 /\ hit # 0
           THEN Fields(RootArgs(nargs, posIdx),
                       [sub |-> TypeFields(target)[hit].Elem,
                        name |-> SubcommandName(target, hit),
                        subArgs |-> SubArgs(nargs, posIdx),
                        subOff |-> noff + posIdx],
                       Append(path, [sub |-> TypeFields(target)[hit].Elem,
                                     at |-> noff + posIdx]))
         ELSE IF Len(m.positionals) > 0 /\ Len(SubNames(target)) > 0
           THEN /\ Fail(NewUnknownSubcommand(first,
                                             closestMatch(first, SubNames(target))))
                /\ Stop
         ELSE Fields(nargs, NoCont, path)
  /\ UNCHANGED <<mistyped, declared, suggested, run, prev, root, input, target, fi, positionalIndex, vals, selected, bound>>

\* parseFields from its entry to the start of the loop over the fields
ParseFieldsEnter ==
  /\ pc = "parseFields"
  /\ \E m \in {buildArgMaps(args)} :
     LET helpOn == HelpMode(target) # <<"s","u","b","c","m","d">>
                   /\ MetaArgEnabled("Help", target)
         Stop == UNCHANGED <<fi, positionalIndex>>
     IN  IF helpOn /\ (ShortHelpFlag \in DOMAIN m.argIndex
                       \/ LongHelpFlag \in DOMAIN m.argIndex)
           THEN /\ IF BuildHelpFails(target) THEN Fail(BuilderError)
                   ELSE Exit("help", target)
                /\ Stop
         ELSE IF MetaArgEnabled("Version", target)
                 /\ VersionFlag \in DOMAIN m.argIndex
           THEN /\ IF BuildVersionFails(target) THEN Fail(BuilderError)
                   ELSE Exit("version", target)
                /\ Stop
         ELSE /\ pc' = "field"
              /\ fi' = 1
              /\ positionalIndex' = 0
              /\ UNCHANGED <<result, err, out>>
  /\ UNCHANGED <<mistyped, declared, suggested, run, prev, root, input, target, args, off, cont, vals, selected, bound, path>>

\* one iteration of the loop of parseFields over the fields of the target
ParseField ==
  /\ pc = "field"
  /\ fi <= Len(TypeFields(target))
  /\ \E m \in {buildArgMaps(args)} :
     LET field == TypeFields(target)[fi]
         tags == FieldTags(target, fi)
         r == Resolve(tags, m, positionalIndex)
         vf == ValueField(field.Elem)
         kind == TypeFields(field.Elem)[vf].Kind
         Continue ==
           /\ fi' = fi + 1
           /\ UNCHANGED <<pc, result, err, out>>
     IN  IF field.TypeName \in {"Clifford", "Version", "Help"}
            \/ field.Kind # "struct"
           THEN Continue /\ UNCHANGED <<positionalIndex, vals, bound>>
         ELSE IF ~r.found /\ IsRequired(tags)
           THEN /\ Fail(NewMissingArg(field.Name))
                /\ UNCHANGED <<fi, positionalIndex, vals, bound>>
         ELSE IF ~r.found
           THEN Continue /\ UNCHANGED <<positionalIndex, vals, bound>>
         ELSE IF vf = 0
           THEN /\ Continue
                /\ positionalIndex' = r.positionalIndex
                /\ UNCHANGED <<vals, bound>>
         ELSE IF kind \notin SupportedKinds
           THEN /\ Fail(NewUnsupportedField(field.Name, kind))
                /\ positionalIndex' = r.positionalIndex
                /\ UNCHANGED <<fi, vals, bound>>
         ELSE /\ Continue
              /\ positionalIndex' = r.positionalIndex
              /\ vals' = [vals EXCEPT ![field.Elem] = SetValue(@, kind, r.value)]
              /\ bound' = [bound EXCEPT ![field.Elem] =
                             [how |-> r.how, str |-> r.value,
                              idx |-> IF r.idx = 0 THEN 0 ELSE off + r.idx]]
  /\ UNCHANGED <<mistyped, declared, suggested, run, prev, root, input, target, args, off, cont, selected, path>>

\* parseFields returns nil: parseWithArgs returns it, or goes on to the
\* subcommand it matched
ParseFieldsReturn ==
  /\ pc = "field"
  /\ fi > Len(TypeFields(target))
  /\ IF cont.sub = ""
       THEN /\ pc' = "done"
            /\ result' = "ok"
       ELSE /\ pc' = "descend"
            /\ result' = result
  /\ UNCHANGED <<mistyped, declared, suggested, run, prev, root, input, target, args, off, fi, positionalIndex, cont,
                 vals, selected, err, out, bound, path>>

RECURSIVE FirstSubcommandMarker(_, _)
\* the first embedded member of type Subcommand, 0 if there is none
FirstSubcommandMarker(fields, j) ==
  IF j > Len(fields) THEN 0
  ELSE IF fields[j].Anonymous /\ fields[j].TypeName = "Subcommand" THEN j
  ELSE FirstSubcommandMarker(fields, j + 1)

\* a marker test that expects the marker to be an empty struct
MarkableStruct(t) ==
  /\ FirstSubcommandMarker(TypeFields(t), 1) # 0
  /\ TypeFields(t)[FirstSubcommandMarker(TypeFields(t), 1)].Kind = "struct"

\* the marker of struct type t can be set to true
Markable(t) ==
  /\ FirstSubcommandMarker(TypeFields(t), 1) # 0
  /\ TypeFields(t)[FirstSubcommandMarker(TypeFields(t), 1)].Kind = "bool"

\* a marking that also clears the marker of every other struct
SetBoolOnly(sel, c) == [t \in DOMAIN sel |-> t = c]

\* f.SetBool(true) on the marker of struct c
SetBool(sel, c) == [sel EXCEPT ![c] = TRUE]

\* a scan that looks only at the token next to the subcommand token
HelpRequestedNext(subArgs) ==
  Len(subArgs) > 0 /\ subArgs[1] \in {ShortHelpFlag, LongHelpFlag}

\* `for _, a := range subArgs { if a == "-h" || a == "--help" {`
HelpRequested(subArgs) ==
  \E k \in 1..Len(subArgs) : subArgs[k] \in {ShortHelpFlag, LongHelpFlag}

\* parseWithArgs after parseFields returned nil for the parent: mark the
\* subcommand, print its help if a later token asks for it, else recurse
Descend ==
  /\ pc = "descend"
  /\ selected' = IF Markable(cont.sub) THEN SetBool(selected, cont.sub)
                 ELSE selected
  /\ IF HelpRequested(cont.subArgs)
       THEN /\ Exit("subhelp", cont.sub)
            /\ UNCHANGED <<target, args, off, cont>>
       ELSE /\ pc' = "parseWithArgs"
            /\ target' = cont.sub
            /\ args' = cont.subArgs
            /\ off' = cont.subOff
            /\ cont' = NoCont
            /\ UNCHANGED <<result, err, out>>
  /\ UNCHANGED <<mistyped, declared, suggested, run, prev, root, input, fi, positionalIndex, vals, bound, path>>

Next ==
  \/ ParseWithArgs
  \/ ParseFieldsEnter
  \/ ParseField
  \/ ParseFieldsReturn
  \/ Descend

Spec == Init /\ [][Next]_vars

\* the calls whose every behaviour is followed to its end
LiveInit ==
  /\ Init
  /\ Len(input) <= MaxLiveArgs

\* Parse is sequential code without a loop that waits: a call that can take a
\* step takes it
FairSpec ==
  /\ LiveInit
  /\ [][Next]_vars
  /\ WF_vars(Next)

\* what a finished call of Parse leaves behind: the outcome kind, the error,
\* the markers and values of the target, the text printed, and what
\* buildArgMaps made of the tokens
Outcome ==
  [result |-> result, err |-> err, selected |-> selected, vals |-> vals,
   out |-> out, classified |-> buildArgMaps(Normalize(input))]

\* Parse(&target) called again with the same os.Args on a zeroed target
Restart ==
  /\ pc = "done"
  /\ run = 1
  /\ run' = 2
  /\ prev' = Outcome
  /\ pc' = "parseWithArgs"
  /\ target' = root
  /\ args' = input
  /\ off' = 0
  /\ fi' = 0
  /\ positionalIndex' = 0
  /\ cont' = NoCont
  /\ vals' = [t \in TypesOf(root) |-> ZeroValue]
  /\ selected' = [t \in TypesOf(root) |-> FALSE]
  /\ result' = "running"
  /\ err' = NoError
  /\ out' = NoOut
  /\ bound' = [t \in TypesOf(root) |-> Unbound]
  /\ path' = <<>>
  /\ UNCHANGED <<mistyped, declared, suggested, root, input>>

NextTwice ==
  \/ Next
  \/ Restart

\* the same (schema, tokens) pair resolved twice
SpecTwice == Init /\ [][NextTwice]_vars

----------------------------------------------------------------------------
(* closestMatch called on its own, on names and candidate lists of every
   shape its rules distinguish *)

\* the longest candidate list tried
MaxCandidates == 2

\* the names tried as target: the empty token, prefixes in both cases, a
\* transposition and a deletion of serve, names one edit from two candidates,
\* a name far from all, and one long enough for a threshold above 3
MistypedNames ==
  { Empty, <<"s","e","r">>, <<"S","E","R">>, <<"s","e","v","r","e">>, <<"s","r","v","e">>, <<"b","c">>, <<"a","b">>, <<"x","y","z">>, <<"a","b","c","d","e","f","g","h","i","j","k","l">> }

\* the names tried as candidates
CandidateNames ==
  { <<"s","e","r","v","e">>, <<"s","e","r","v","e","r">>, <<"s","t","a","t","u","s">>, <<"b","a">>, <<"a","c">>, <<"S","t","a","r","t">>, <<"a","b","c","d","e","f","g","h">>,
    <<"a","b","c","d","e","f","g","h","i">> }

SuggestInit ==
  /\ mistyped \in MistypedNames
  /\ declared \in SeqsUpTo(CandidateNames, MaxCandidates)
  /\ suggested = Empty
  /\ pc = "closestMatch"
  /\ root = "ServeApp"
  /\ input = <<>>
  /\ target = root
  /\ args = input
  /\ off = 0
  /\ fi = 0
  /\ positionalIndex = 0
  /\ cont = NoCont
  /\ vals = [t \in TypesOf(root) |-> ZeroValue]
  /\ selected = [t \in TypesOf(root) |-> FALSE]
  /\ result = "running"
  /\ err = NoError
  /\ out = NoOut
  /\ bound = [t \in TypesOf(root) |-> Unbound]
  /\ path = <<>>
  /\ run = 1
  /\ prev = NoOutcome(root)

\* suggestion := closestMatch(target, candidates)
ClosestMatch ==
  /\ pc = "closestMatch"
  /\ suggested' = closestMatch(mistyped, declared)
  /\ pc' = "returned"
  /\ UNCHANGED <<mistyped, declared, root, input, target, args, off, fi,
                 positionalIndex, cont, vals, selected, result, err, out,
                 bound, path, run, prev>>

SuggestNext == ClosestMatch

SuggestSpec == SuggestInit /\ [][SuggestNext]_vars

----------------------------------------------------------------------------
(* properties *)

\* the member structs of scope t (fields and subcommands alike)
Members(t) ==
  {TypeFields(t)[i].Elem : i \in {j \in 1..Len(TypeFields(t)) :
      TypeFields(t)[j].Kind = "struct" /\ TypeFields(t)[j].Elem # ""}}

\* the member structs of scope t that embed the Subcommand marker
SubcommandStructs(t) ==
  {c \in Members(t) : \E j \in 1..Len(TypeFields(c)) :
      TypeFields(c)[j].Anonymous /\ TypeFields(c)[j].TypeName = "Subcommand"}

\* the scope in which the k-th matched subcommand was matched
ParentOf(k) == IF k = 1 THEN root ELSE path[k - 1].sub

\* C1: scope split on dispatch.  For every matched subcommand token, the
\* parent's fields are resolved against exactly the tokens of its scope before
\* the token and the child against exactly the tokens after it; no field of
\* the parent is bound from a token after the subcommand token and no field
\* of the child from a token before it.
ScopeSplit ==
  /\ \A k \in 1..Len(path) :
       /\ \A t \in Members(ParentOf(k)) :
            bound[t].idx # 0 => bound[t].idx < path[k].at
       /\ \A t \in Members(path[k].sub) :
            bound[t].idx # 0 => bound[t].idx > path[k].at
       /\ k > 1 => path[k - 1].at < path[k].at
  /\ (path # <<>> /\ pc \in {"parseFields", "field", "descend"} /\ cont.sub # "")
       => /\ target = ParentOf(Len(path))
          /\ args = SubSeq(input, off + 1, path[Len(path)].at - 1)
  /\ (path # <<>> /\ pc = "parseWithArgs")
       => /\ target = path[Len(path)].sub
          /\ args = SubSeq(input, path[Len(path)].at + 1, Len(input))

\* a parse in which a parent flag before the subcommand token and the
\* same-named child flag after it were both bound
ScopeSplitWitness ==
  /\ pc = "done"
  /\ result = "ok"
  /\ root = "SplitApp"
  /\ Len(path) = 1
  /\ bound["SplitLevel"].idx > 0
  /\ bound["SplitPort"].idx > path[1].at

ValuedAt(a, f) ==
  {i \in 1..Len(a) : a[i] = f /\ i < Len(a) /\ a[i + 1][1] # "-"}

\* the value recorded for flag token f: the one after its last valued occurrence
RecordedValue(a, f) ==
  a[(CHOOSE i \in ValuedAt(a, f) : \A j \in ValuedAt(a, f) : j <= i) + 1]

\* flag token f occurs in a
Present(a, f) == \E i \in 1..Len(a) : a[i] = f

\* the fields of the scope being resolved that the loop has gone past
Processed ==
  IF pc \in {"field", "descend"}
    THEN {i \in 1..Len(TypeFields(target)) :
            /\ i < fi
            /\ TypeFields(target)[i].Kind = "struct"
            /\ TypeFields(target)[i].TypeName \notin {"Clifford", "Version", "Help"}
            /\ ValueField(TypeFields(target)[i].Elem) # 0}
    ELSE {}

\* the kind of the Value member of field struct t
ValueKind(t) == TypeFields(t)[ValueField(t)].Kind

\* what C3 expects a field with the given flag names to be bound to, as a
\* sequence of at most one string
FlagExpectation(a, long, short) ==
  LET lf == DashDash \o long
      sf == Dash \o short
  IN  IF long # Empty /\ ValuedAt(a, lf) # {} THEN <<RecordedValue(a, lf)>>
      ELSE IF short # Empty /\ ValuedAt(a, sf) # {} THEN <<RecordedValue(a, sf)>>
      ELSE IF long # Empty /\ Present(a, lf) THEN <<StrTrue>>
      ELSE IF short # Empty /\ Present(a, sf) THEN <<StrTrue>>
      ELSE <<>>

\* C3: flag precedence in one scope.  A field that declares a long and/or a
\* short flag name is bound to the first of: the long flag's value, the short
\* flag's value, "true" for a value-less long flag, "true" for a value-less
\* short flag; it never takes a positional token, and a value-less flag sets
\* a boolean field to true.
FlagPrecedence ==
  \A i \in Processed :
    LET t == TypeFields(target)[i].Elem
        long == FieldTags(target, i)["long"]
        short == FieldTags(target, i)["short"]
        e == FlagExpectation(args, long, short)
    IN  (long # Empty \/ short # Empty) =>
          /\ bound[t].how # "positional"
          /\ e # <<>> => /\ bound[t].how \in {"long", "short", "longflag", "shortflag"}
                         /\ bound[t].str = e[1]
          /\ e = <<>> => bound[t].how \in {"", "default"}
          /\ ValueKind(t) = "string" /\ e # <<>> => vals[t].str = e[1]
          /\ ValueKind(t) = "bool" /\ bound[t].how \in {"longflag", "shortflag"}
               => vals[t].bool = TRUE

\* a field bound to its short flag's value although its long flag is present
\* without one
FlagPrecedenceWitness ==
  /\ pc = "field"
  /\ root = "Flags"
  /\ bound["FlagsName"].how = "short"
  /\ Present(args, <<"-","-","n","a","m","e">>)
  /\ vals["FlagsName"].str = <<"a","l">>


\* the positions of a that hold a positional token: one that does not begin
\* with a dash and does not directly follow one that does
PositionalPositions(a) ==
  {i \in 1..Len(a) : a[i][1] # "-" /\ (i = 1 \/ a[i - 1][1] # "-")}

\* the k-th smallest member of a set of positions
RECURSIVE Kth(_, _)
Kth(S, k) ==
  LET least == CHOOSE i \in S : \A j \in S : i <= j
  IN  IF k = 1 THEN least ELSE Kth(S \ {least}, k - 1)

\* the fields of scope t that hold a value and declare no flag name, by
\* position in the declaration
PositionalFields(t) ==
  {i \in 1..Len(TypeFields(t)) :
     /\ TypeFields(t)[i].Kind = "struct"
     /\ TypeFields(t)[i].TypeName \notin {"Clifford", "Version", "Help"}
     /\ ValueField(TypeFields(t)[i].Elem) # 0
     /\ FieldTags(t, i)["long"] = Empty
     /\ FieldTags(t, i)["short"] = Empty}

\* the rank of positional field i among the positional fields of scope t
PositionalRank(t, i) == Cardinality({j \in PositionalFields(t) : j <= i})

\* C4: positional order.  In a scope without declared subcommands the k-th
\* positional field in declaration order is bound to the k-th positional token
\* of the scope, one token per field; embedded markers consume no token.
PositionalOrder ==
  \A i \in Processed \cap PositionalFields(target) :
    LET t == TypeFields(target)[i].Elem
        k == PositionalRank(target, i)
        P == PositionalPositions(args)
    IN  (SubcommandStructs(target) = {} /\ k <= Cardinality(P)) =>
          /\ bound[t].how = "positional"
          /\ bound[t].idx = off + Kth(P, k)
          /\ bound[t].str = args[Kth(P, k)]

\* the loop of parseFields stands at a field it resolves: a struct member
\* other than the Clifford, Version and Help markers
AtField ==
  /\ pc = "field"
  /\ fi <= Len(TypeFields(target))
  /\ TypeFields(target)[fi].Kind = "struct"
  /\ TypeFields(target)[fi].TypeName \notin {"Clifford", "Version", "Help"}

\* a flag of the field the loop stands at occurs in the tokens of the scope
FlagMatched ==
  FlagExpectation(args, FieldTags(target, fi)["long"],
                  FieldTags(target, fi)["short"]) # <<>>

\* the field the loop stands at declares no flag name and a positional token
\* is left under the cursor
PositionalMatched ==
  /\ FieldTags(target, fi)["long"] = Empty
  /\ FieldTags(target, fi)["short"] = Empty
  /\ positionalIndex < Cardinality(PositionalPositions(args))

\* C5: missing required.  A field marked required for which no flag and no
\* positional token is found and which declares no default ends the parse with
\* MissingArg naming that field; MissingArg arises in no other way, so the
\* field named is the first such field in declaration order.
MissingRequired ==
  [][ LET unmatched ==
            /\ AtField
            /\ FieldTags(target, fi)["required"] = StrTrue
            /\ FieldTags(target, fi)["default"] = Empty
            /\ ~FlagMatched
            /\ ~PositionalMatched
          missing ==
            /\ pc' = "done"
            /\ result' = "error"
            /\ err'.Kind = "MissingArg"
            /\ err'.Field = TypeFields(target)[fi].Name
      IN  /\ unmatched => missing
          /\ (err'.Kind = "MissingArg" /\ err.Kind # "MissingArg") => unmatched
    ]_vars

\* a parse that bound the required Name and then failed on the required Key,
\* the first required field left without input
MissingRequiredWitness ==
  /\ pc = "done"
  /\ root = "Req"
  /\ result = "error"
  /\ err.Kind = "MissingArg"
  /\ err.Field = <<"K","e","y">>
  /\ bound["ReqName"].how = "positional"

\* C6: default fallback.  A field with a non-empty default and no matching
\* flag or positional token receives the default, coerced to the kind of the
\* field; it is never reported missing, and any matching input overrides the
\* default.
DefaultFallback ==
  [][ (/\ AtField
       /\ FieldTags(target, fi)["default"] # Empty
       /\ ValueField(TypeFields(target)[fi].Elem) # 0
       /\ ValueKind(TypeFields(target)[fi].Elem) \in SupportedKinds)
      => LET t == TypeFields(target)[fi].Elem
             d == FieldTags(target, fi)["default"]
             e == FlagExpectation(args, FieldTags(target, fi)["long"],
                                  FieldTags(target, fi)["short"])
             P == PositionalPositions(args)
         IN  /\ pc' = "field"
             /\ result' = "running"
             /\ (~FlagMatched /\ ~PositionalMatched) =>
                  /\ bound'[t] = [how |-> "default", str |-> d, idx |-> 0]
                  /\ ValueKind(t) = "string" => vals'[t].str = d
                  /\ ValueKind(t) = "int" /\ Atoi(d).ok => vals'[t].int = Atoi(d).val
             /\ FlagMatched =>
                  /\ bound'[t].how \in {"long", "short", "longflag", "shortflag"}
                  /\ bound'[t].str = e[1]
             /\ PositionalMatched =>
                  /\ bound'[t].how = "positional"
                  /\ bound'[t].str = args[Kth(P, positionalIndex + 1)]
    ]_vars

\* a successful parse in which the required Port fell back to its default
\* 8080 while Mode, which has a default too, took a positional token
DefaultFallbackWitness ==
  /\ pc = "done"
  /\ root = "Req"
  /\ result = "ok"
  /\ bound["ReqPort"].how = "default"
  /\ vals["ReqPort"].int = 8080
  /\ bound["ReqMode"].how = "positional"
  /\ vals["ReqMode"].str # <<"m">>

\* the struct type of the k-th scope on the matched path, the root being 0
ScopeType(k) == IF k = 0 THEN root ELSE path[k].sub

\* the input position after which the tokens of the k-th scope begin
ScopeStart(k) == IF k = 0 THEN 0 ELSE path[k].at

\* the input position of the first `--` among the tokens of the k-th scope,
\* 0 if there is none
Separator(k) ==
  LET S == {s \in (ScopeStart(k) + 1)..Len(input) : input[s] = DashDash}
  IN  IF S = {} THEN 0 ELSE CHOOSE s \in S : \A r \in S : s <= r

\* the scope whose fields are being resolved
Depth == IF cont.sub # "" THEN Len(path) - 1 ELSE Len(path)

\* parseWithArgs has normalised the tokens of the k-th scope
Normalized(k) == k < Len(path) \/ pc # "parseWithArgs"

\* C7: `--` discards the prefix.  When the token list of a scope contains
\* `--`, the first occurrence and every token before it are dropped before
\* classification: nothing in the scope is bound or dispatched from them, the
\* fields are resolved against the tokens after it, and positional fields
\* take those tokens in order.
SeparatorDiscardsPrefix ==
  \A k \in 0..Len(path) :
    (Normalized(k) /\ Separator(k) > 0) =>
      /\ \A t \in Members(ScopeType(k)) :
           bound[t].idx # 0 => bound[t].idx > Separator(k)
      /\ k < Len(path) => path[k + 1].at > Separator(k)
      /\ \A t, u \in Members(ScopeType(k)) :
           (/\ bound[t].how = "positional"
            /\ bound[u].how = "positional"
            /\ \E i, j \in 1..Len(TypeFields(ScopeType(k))) :
                 /\ i < j
                 /\ TypeFields(ScopeType(k))[i].Elem = t
                 /\ TypeFields(ScopeType(k))[j].Elem = u)
           => bound[t].idx < bound[u].idx
      /\ (pc \in {"parseFields", "field"} /\ k = Depth) =>
           /\ off = Separator(k)
           /\ args = SubSeq(input, Separator(k) + 1,
                            IF cont.sub # "" THEN path[Len(path)].at - 1
                            ELSE Len(input))

\* `junk -- al 30` parsed into Name = "al" and Age = "30"
SeparatorDiscardsPrefixWitness ==
  /\ pc = "done"
  /\ result = "ok"
  /\ root = "Pos"
  /\ input = << <<"j","u","n","k">>, DashDash, <<"a","l">>, <<"3","0">> >>
  /\ vals["PosName"].str = <<"a","l">>
  /\ vals["PosAge"].str = <<"3","0">>
  /\ bound["PosName"].idx = 3
  /\ bound["PosAge"].idx = 4

\* C8: `--` ends flag parsing.  After the separator every token of the scope
\* is positional, dash-prefixed ones included: none of them binds a field as a
\* flag, and the k-th positional field of a scope without subcommands and
\* without embedded markers takes the k-th token after the separator.
SeparatorEndsFlags ==
  \A k \in 0..Len(path) :
    (Normalized(k) /\ Separator(k) > 0) =>
      /\ \A t \in Members(ScopeType(k)) :
           bound[t].idx > Separator(k) => bound[t].how = "positional"
      /\ (pc = "field" /\ k = Depth /\ SubcommandStructs(target) = {}
          /\ PositionalFields(target) = {i \in 1..Len(TypeFields(target)) :
                                            TypeFields(target)[i].Kind = "struct"
                                            /\ TypeFields(target)[i].Elem # ""})
         => \A i \in Processed :
              PositionalRank(target, i) <= Len(args) =>
                /\ bound[TypeFields(target)[i].Elem].how = "positional"
                /\ bound[TypeFields(target)[i].Elem].str
                     = args[PositionalRank(target, i)]

\* the tokens of a left after its first `--`, all of a if it has none
AfterSeparator(a) ==
  LET S == {s \in 1..Len(a) : a[s] = DashDash}
  IN  IF S = {} THEN a
      ELSE SubSeq(a, (CHOOSE s \in S : \A r \in S : s <= r) + 1, Len(a))

\* the first positional token of a, as a sequence of at most one token
FirstPositional(a) ==
  IF PositionalPositions(a) = {} THEN <<>>
  ELSE << a[Kth(PositionalPositions(a), 1)] >>

\* the name a subcommand struct declares: the name tag of its embedded
\* Subcommand marker when it has one, the lowercased field name otherwise
DeclaredName(t, c) ==
  LET marker == TypeFields(c)[FirstSubcommandMarker(TypeFields(c), 1)]
      i == CHOOSE j \in 1..Len(TypeFields(t)) : TypeFields(t)[j].Elem = c
  IN  IF marker.Tag["name"] # Empty THEN marker.Tag["name"]
      ELSE ToLower(TypeFields(t)[i].Name)

\* the names the subcommands of scope t declare, in declaration order
DeclaredNames(t) ==
  [k \in 1..Len(Subcommands(t)) |->
     DeclaredName(t, TypeFields(t)[Subcommands(t)[k]].Elem)]

\* C9: unknown subcommand.  In a scope that declares at least one subcommand,
\* a first positional token that is not `help` and equals none of the declared
\* subcommand names ends the parse with UnknownSubcommand, whose Name is the
\* token and whose Suggestion is the closest match over all declared names in
\* declaration order.
UnknownSubcommand ==
  [][ LET f == FirstPositional(AfterSeparator(args))
          names == DeclaredNames(target)
      IN  (/\ pc = "parseWithArgs"
           /\ SubcommandStructs(target) # {}
           /\ f # <<>>
           /\ f # <<StrHelp>>
           /\ \A k \in 1..Len(names) : names[k] # f[1])
          => /\ pc' = "done"
             /\ result' = "error"
             /\ err'.Kind = "UnknownSubcommand"
             /\ err'.Name = f[1]
             /\ err'.Suggestion = closestMatch(f[1], names)
             /\ UNCHANGED <<vals, selected, bound, path>>
    ]_vars

\* C10: subcommand naming.  Every subcommand on the matched path was
\* dispatched on a token equal to its declared name: the explicit name tag
\* when given, the lowercased field name otherwise.
SubcommandNaming ==
  \A k \in 1..Len(path) :
    input[path[k].at] = DeclaredName(ParentOf(k), path[k].sub)

\* scope t embeds a member of marker type s ("Help" or "Version")
Embeds(t, s) ==
  \E i \in 1..Len(TypeFields(t)) : TypeFields(t)[i].TypeName = s

\* scope t exposes help as a flag: it embeds Help and the mode is not `subcmd`
FlagHelpOn(t) == Embeds(t, "Help") /\ HelpMode(t) # <<"s","u","b","c","m","d">>

\* a help flag occurs in a
HelpFlagIn(a) == Present(a, ShortHelpFlag) \/ Present(a, LongHelpFlag)

FlagHelpDisabled ==
  [][ HelpMode(root) = <<"s","u","b","c","m","d">> =>
        /\ pc \in {"parseFields", "descend"} => result' # "exit"
        /\ (input = << <<"s","e","r","v","e">>, LongHelpFlag >> /\ pc' = "done") => result' = "error"
    ]_vars

\* scope t permits the positional form of help: it embeds Help and the mode
\* is `subcmd` or `both`
PositionalHelpOn(t) ==
  Embeds(t, "Help") /\ HelpMode(t) \in { <<"s","u","b","c","m","d">>, <<"b","o","t","h">> }

\* C13: positional `help` is gated by the exposure mode.  A first positional
\* token `help` prints help and exits only in a scope whose help mode permits
\* the positional form; elsewhere it is treated like any other first
\* positional token: matched against the subcommands, or left to the fields
\* of the scope.
HelpWordGated ==
  [][ (/\ pc = "parseWithArgs"
       /\ FirstPositional(AfterSeparator(args)) = <<StrHelp>>
       /\ ~PositionalHelpOn(target))
      => /\ result' # "exit"
         /\ SubcommandStructs(target) = {} =>
              /\ pc' = "parseFields"
              /\ args' = AfterSeparator(args)
    ]_vars

\* the second positional token of a, as a sequence of at most one token
SecondPositional(a) ==
  IF Cardinality(PositionalPositions(a)) < 2 THEN <<>>
  ELSE << a[Kth(PositionalPositions(a), 2)] >>

\* C14: `help <name>` is scoped to the named subcommand.  In a scope that
\* permits the positional form of help, `help` followed by a second positional
\* token that equals a declared subcommand name prints the help of that
\* subcommand and exits; UnknownSubcommand is returned for the second token
\* only when it equals no declared name.
HelpSubcommandScoped ==
  [][ LET a == AfterSeparator(args)
          s == SecondPositional(a)
          names == DeclaredNames(target)
          hits == {k \in 1..Len(names) : names[k] = s[1]}
      IN  (/\ pc = "parseWithArgs"
           /\ PositionalHelpOn(target)
           /\ FirstPositional(a) = <<StrHelp>>
           /\ s # <<>>)
          => /\ hits # {} =>
                  /\ result' = "exit"
                  /\ out'.what = "subhelp"
                  /\ \E k \in hits :
                       out'.of = TypeFields(target)[Subcommands(target)[k]].Elem
             /\ err'.Kind = "UnknownSubcommand" => (hits = {} /\ err'.Name = s[1])
    ]_vars

\* C15: help and version flags are intercepted before subcommand matching at
\* the root call.  When the root exposes flag-style help and the tokens of the
\* root call contain -h or --help, or the root embeds Version and they contain
\* --version, the root call does not end with UnknownSubcommand.
HelpBeforeDispatch ==
  (pc = "done" /\ path = <<>> /\ err.Kind = "UnknownSubcommand")
    => /\ ~(FlagHelpOn(root) /\ HelpFlagIn(AfterSeparator(input)))
       /\ ~(Embeds(root, "Version") /\ Present(AfterSeparator(input), VersionFlag))

\* the reserved tokens
Reserved == {ShortHelpFlag, LongHelpFlag, VersionFlag, DashDash, StrHelp}

\* the token list the classifier is run on in the current step
Classified ==
  IF pc = "parseWithArgs" THEN Normalize(args)
  ELSE IF pc \in {"parseFields", "field"} THEN args
  ELSE <<>>

\* C16: reserved tokens are never flag values.  None of -h, --help,
\* --version, -- and the word help is recorded by the classifier as the value
\* of a flag, and none is bound to a field as the value of its flag.
ReservedNotValues ==
  /\ \A f \in DOMAIN buildArgMaps(Classified).argMap :
       buildArgMaps(Classified).argMap[f] \notin Reserved
  /\ \A t \in DOMAIN bound :
       bound[t].how \in {"long", "short"} => bound[t].str \notin Reserved

\* the fields of scope t whose Value member has a kind the parser cannot set
UnsupportedFields(t) ==
  {i \in 1..Len(TypeFields(t)) :
     /\ TypeFields(t)[i].Kind = "struct"
     /\ ValueField(TypeFields(t)[i].Elem) # 0
     /\ ValueKind(TypeFields(t)[i].Elem) \notin SupportedKinds}

\* C17: an unsupported field type is always fatal.  Resolving a scope that
\* declares a field whose Value is not a string, int, float64 or bool fails
\* with UnsupportedFieldType naming the field and its type, whatever the
\* tokens are.
UnsupportedFatal ==
  (pc = "done" /\ result # "exit" /\ path = <<>> /\ SubcommandStructs(root) = {}
   /\ UnsupportedFields(root) # {})
    => /\ result = "error"
       /\ err.Kind = "UnsupportedFieldType"
       /\ \E i \in UnsupportedFields(root) :
            /\ err.Field = TypeFields(root)[i].Name
            /\ err.Type = ValueKind(TypeFields(root)[i].Elem)

\* C18: no rollback on failure.  A field that has been bound keeps its
\* binding and value in every later step, a subcommand that has been marked
\* selected stays marked, and the step that fails changes no value and no
\* marker.
NoRollback ==
  [][ /\ \A t \in DOMAIN bound :
           /\ bound[t].how # "" => (bound'[t] = bound[t] /\ vals'[t] = vals[t])
           /\ selected[t] => selected'[t]
      /\ result' = "error" => (vals' = vals /\ selected' = selected /\ bound' = bound)
    ]_vars

\* `-p 9 status`: the parent's Level is bound to 9 and Status is marked, then
\* the required Id of Status is missing; both survive the failure
NoRollbackWitness ==
  /\ pc = "done"
  /\ root = "SplitApp"
  /\ input = << <<"-","p">>, <<"9">>, <<"s","t","a","t","u","s">> >>
  /\ result = "error"
  /\ err.Kind = "MissingArg"
  /\ err.Field = <<"I","d">>
  /\ vals["SplitLevel"].int = 9
  /\ bound["SplitLevel"].how = "short"
  /\ selected["SplitStatus"]


\* flag token f occurs exactly once in a and a token follows it
SuppliedOnce(a, f) ==
  /\ Cardinality({i \in 1..Len(a) : a[i] = f}) = 1
  /\ \E i \in 1..Len(a) - 1 : a[i] = f

\* the token that follows the occurrence of f in a
Supplied(a, f) == a[(CHOOSE i \in 1..Len(a) : a[i] = f) + 1]

\* the fields of scope t that hold a value
ValueFields(t) ==
  {i \in 1..Len(TypeFields(t)) :
     /\ TypeFields(t)[i].Kind = "struct"
     /\ TypeFields(t)[i].TypeName \notin {"Clifford", "Version", "Help"}
     /\ ValueField(TypeFields(t)[i].Elem) # 0}

\* every field of scope t is optional and declares a long flag, and t
\* declares no subcommand
AllOptionalLong(t) ==
  /\ ValueFields(t) # {}
  /\ Subcommands(t) = <<>>
  /\ \A i \in ValueFields(t) :
       /\ ~IsRequired(FieldTags(t, i))
       /\ FieldTags(t, i)["long"] # Empty

\* v lies in the range of the kind: it is a text the conversion accepts
InRange(kind, v) ==
  CASE kind = "string" -> TRUE
    [] kind = "int" -> Atoi(v).ok
    [] kind = "bool" -> ParseBool(v).ok
    [] OTHER -> FALSE

\* v is written the way a value of the kind is printed and does not begin
\* with a dash: any such string, an unsigned decimal without leading zeros,
\* or `true` / `false`
Canonical(kind, v) ==
  /\ v[1] # "-"
  /\ CASE kind = "string" -> TRUE
       [] kind = "int" -> /\ \A i \in 1..Len(v) : IsDigit(v[i])
                          /\ (Len(v) = 1 \/ v[1] # "0")
       [] kind = "bool" -> v \in { <<"t","r","u","e">>, <<"f","a","l","s","e">> }
       [] OTHER -> FALSE

RECURSIVE NestingDepth(_)
\* the subcommand nesting depth of the schema below scope t
NestingDepth(t) ==
  IF SubcommandStructs(t) = {} THEN 0
  ELSE 1 + (CHOOSE d \in {NestingDepth(c) : c \in SubcommandStructs(t)} :
              \A c \in SubcommandStructs(t) : NestingDepth(c) <= d)

\* the call has ended in exactly one of success, a returned error, or a
\* help / version emission followed by exit code 0
Terminal ==
  /\ result \in {"ok", "error", "exit"}
  /\ result = "error" <=> err # NoError
  /\ result = "exit" <=> out # NoOut

\* C21: termination.  Every parse call ends, and ends in exactly one terminal
\* outcome that it never leaves; it descends at most as many times as the
\* schema nests subcommands, and each descent hands the child a token list
\* strictly shorter than the one its caller classified.
Termination ==
  /\ <>(pc = "done")
  /\ [](pc = "done" <=> result # "running")
  /\ [](pc = "done" => Terminal)
  /\ [](Len(path) <= NestingDepth(root))
  /\ [][/\ pc = "done" => FALSE
        /\ (pc = "descend" /\ pc' = "parseWithArgs") =>
             /\ Len(args') < Len(input) - off
             /\ Len(args') = Len(input) - off']_vars

\* `app remote add --name or`: two descents, then success
TerminationWitness ==
  /\ pc = "done"
  /\ result = "ok"
  /\ root = "NestedApp"
  /\ Len(path) = 2
  /\ NestingDepth(root) = 2
  /\ input = <<<<"r","e","m","o","t","e">>, <<"a","d","d">>>>
  /\ off = 2
  /\ args = <<>>


\* the positions of a holding a token that begins with a dash
DashIdxs(a) == {i \in 1..Len(a) : HasPrefix(a[i], Dash)}

\* the positions of a holding a token without a dash that directly follows a
\* token with one
ValueIdxs(a) ==
  {i \in 2..Len(a) : ~HasPrefix(a[i], Dash) /\ HasPrefix(a[i - 1], Dash)}

\* the classes of the positions of a, read from what buildArgMaps returns
ClassesOf(a, i) ==
  (IF a[i] \in DOMAIN buildArgMaps(a).argIndex /\ HasPrefix(a[i], Dash)
     THEN {"flag"} ELSE {})
  \cup (IF i \in ValueIdxs(a) /\ a[i - 1] \in DOMAIN buildArgMaps(a).argMap
          THEN {"value"} ELSE {})
  \cup (IF \E k \in 1..Len(buildArgMaps(a).positionalIdxs) :
             buildArgMaps(a).positionalIdxs[k] = i
          THEN {"positional"} ELSE {})

\* the partition of the positions of a token list a by buildArgMaps
Partition(a, m) ==
  /\ \A i \in 1..Len(a) : Cardinality(ClassesOf(a, i)) = 1
  /\ \A i \in DashIdxs(a) : a[i] \in DOMAIN m.argIndex
  /\ \A f \in DOMAIN m.argIndex : \E i \in DashIdxs(a) : a[i] = f
  /\ DOMAIN m.argMap \subseteq DOMAIN m.argIndex
  /\ \A f \in DOMAIN m.argMap :
       \E i \in ValueIdxs(a) : a[i - 1] = f /\ a[i] = m.argMap[f]
  /\ \A i \in DashIdxs(a) :
       (i = Len(a) \/ HasPrefix(a[i + 1], Dash)) =>
         \/ a[i] \notin DOMAIN m.argMap
         \/ \E j \in ValueIdxs(a) : a[j - 1] = a[i]
  /\ Len(m.positionals) = Len(m.positionalIdxs)
  /\ \A k \in 1..Len(m.positionalIdxs) :
       /\ m.positionalIdxs[k] \in 1..Len(a)
       /\ m.positionals[k] = a[m.positionalIdxs[k]]
       /\ k > 1 => m.positionalIdxs[k - 1] < m.positionalIdxs[k]
  /\ {m.positionalIdxs[k] : k \in 1..Len(m.positionalIdxs)}
       = (1..Len(a)) \ (DashIdxs(a) \cup ValueIdxs(a))

\* C22: classifier partition.  For every token list the classifier is run on,
\* each position is exactly one of flag, flag value and positional; every
\* token beginning with a dash is recorded as a flag, valued or value-less; a
\* recorded value directly follows an occurrence of its flag and does not
\* begin with a dash, so a flag followed by a flag-like token or by nothing
\* takes no value there; the positional list holds exactly the unconsumed
\* tokens, in their order, with strictly increasing original positions.
ClassifierPartition ==
  \A m \in {buildArgMaps(Classified)} : Partition(Classified, m)

\* reached: a flag directly before another flag, a flag with a value and a
\* positional token classified in one list
ClassifierPartitionWitness ==
  /\ pc = "parseFields"
  /\ root = "Flags"
  /\ args = <<<<"-","n">>, <<"-","f">>, <<"a","l">>, <<"0">>>>
  /\ buildArgMaps(args).positionalIdxs = <<4>>
  /\ buildArgMaps(args).argMap = MapPut(EmptyMap, <<"-","f">>, <<"a","l">>)

\* candidate c, lower-cased, starts with name n, lower-cased
StartsWithLower(c, n) ==
  /\ Len(n) <= Len(c)
  /\ \A i \in 1..Len(n) : ToLowerCh(c[i]) = ToLowerCh(n[i])

\* the positions of the candidates that match the name by prefix
PrefixMatches ==
  {k \in 1..Len(declared) : StartsWithLower(declared[k], mistyped)}

\* the least member of a non-empty set of positions
FirstIn(S) == CHOOSE k \in S : \A h \in S : k <= h

\* C23 as stated, for every name: when some candidate's lower-cased form
\* starts with the lower-cased name, the first such candidate is returned.
PrefixRule ==
  (pc = "returned" /\ PrefixMatches # {})
    => suggested = declared[FirstIn(PrefixMatches)]

\* C23: suggestion rule 1 (prefix).  For every non-empty mistyped name and
\* candidate list, when some candidate's lower-cased form starts with the
\* lower-cased name, closestMatch returns the first such candidate in
\* declaration order, whatever the edit distances and length differences.
PrefixRuleNonEmpty ==
  (pc = "returned" /\ mistyped # Empty /\ PrefixMatches # {})
    => suggested = declared[FirstIn(PrefixMatches)]

\* reached: the first of two candidates matching by prefix is returned
\* although the second is closer to the name
PrefixRuleNonEmptyWitness ==
  /\ pc = "returned"
  /\ mistyped = <<"S","E","R">>
  /\ declared = <<<<"s","e","r","v","e","r">>, <<"s","e","r","v","e">>>>
  /\ PrefixMatches = {1, 2}
  /\ suggested = <<"s","e","r","v","e","r">>
  /\ levenshtein(ToLower(mistyped), <<"s","e","r","v","e">>) < levenshtein(ToLower(mistyped), <<"s","e","r","v","e","r">>)

\* b is a with the characters at two positions, which differ, exchanged
Swapped(a, b) ==
  /\ Len(a) = Len(b)
  /\ \E i \in 1..Len(a) : \E j \in (i + 1)..Len(a) :
       /\ a[i] # a[j]
       /\ b[i] = a[j]
       /\ b[j] = a[i]
       /\ \A k \in (1..Len(a)) \ {i, j} : b[k] = a[k]

\* the positions of the candidates that are the name with two characters
\* exchanged, case ignored
TranspositionMatches ==
  {k \in 1..Len(declared) : Swapped(ToLower(mistyped), ToLower(declared[k]))}

Min3(p, q, r) == IF p <= q /\ p <= r THEN p ELSE IF q <= r THEN q ELSE r

RECURSIVE EditColumn(_, _, _, _)
\* one column of the matrix D of the Levenshtein recurrence
\*   D[i, 0] = i, D[0, j] = j,
\*   D[i, j] = min(D[i-1, j] + 1, D[i, j-1] + 1, D[i-1, j-1] + [a[i] # b[j]])
\* for the character bj of b: left is column j-1, col holds D[0..i-1, j]
EditColumn(a, bj, left, col) ==
  IF Len(col) > Len(a) THEN col
  ELSE EditColumn(a, bj, left,
         Append(col, Min3(col[Len(col)] + 1, left[Len(col) + 1] + 1,
                          left[Len(col)] + (IF a[Len(col)] # bj THEN 1 ELSE 0))))

RECURSIVE EditColumns(_, _, _, _)
EditColumns(a, b, j, left) ==
  IF j > Len(b) THEN left
  ELSE EditColumns(a, b, j + 1, EditColumn(a, b[j], left, <<j>>))

\* the Levenshtein distance of a and b, case ignored
EditDistance(a, b) ==
  EditColumns(ToLower(a), ToLower(b), 1,
              [i \in 1..(Len(a) + 1) |-> i - 1])[Len(a) + 1]

\* C24: suggestion rule 2 (transposition).  When no candidate matches the
\* name by prefix and some candidate of the name's length differs from it in
\* exactly two positions whose characters are exchanged (case ignored, as in
\* the other rules), closestMatch returns the first such candidate in
\* declaration order, also when another candidate is nearer by edit distance.
TranspositionRule ==
  (pc = "returned" /\ PrefixMatches = {} /\ TranspositionMatches # {})
    => suggested = declared[FirstIn(TranspositionMatches)]

\* reached: ba is returned for ab although ac, declared before it, is one
\* edit away and ba two
TranspositionRuleWitness ==
  /\ pc = "returned"
  /\ mistyped = <<"a","b">>
  /\ declared = <<<<"a","c">>, <<"b","a">>>>
  /\ PrefixMatches = {}
  /\ TranspositionMatches = {2}
  /\ EditDistance(mistyped, declared[1]) = 1
  /\ EditDistance(mistyped, declared[2]) = 2
  /\ suggested = <<"b","a">>

\* the positions of the candidates whose length is within 3 of the name's
NearInLength ==
  {k \in 1..Len(declared) :
     Len(declared[k]) - Len(mistyped) \in -3..3}

\* the least edit distance from the name to a candidate near in length
LeastDistance ==
  CHOOSE d \in {EditDistance(mistyped, declared[k]) : k \in NearInLength} :
    \A k \in NearInLength : d <= EditDistance(mistyped, declared[k])

\* the positions of the near candidates at the least distance
Nearest ==
  {k \in NearInLength : EditDistance(mistyped, declared[k]) = LeastDistance}

\* the threshold max(2, floor(len(input)/3))
Threshold ==
  IF Len(mistyped) \div 3 > 2 THEN Len(mistyped) \div 3 ELSE 2

\* C25: suggestion rule 3 (bounded edit distance).  When no candidate matches
\* by prefix or by transposition, closestMatch returns the candidate at the
\* least case-insensitive Levenshtein distance among those whose length is
\* within 3 of the name's, the earliest declared of them, if that distance is
\* at most max(2, floor(len/3)), and no suggestion otherwise.  What it
\* returns is always empty or one of the candidates.
DistanceRule ==
  pc = "returned" =>
    /\ (PrefixMatches = {} /\ TranspositionMatches = {}) =>
         IF NearInLength # {} /\ LeastDistance <= Threshold
           THEN suggested = declared[FirstIn(Nearest)]
           ELSE suggested = Empty
    /\ \/ suggested = Empty
       \/ \E k \in 1..Len(declared) : suggested = declared[k]

\* reached: for a name of twelve characters the threshold is 4, and the
\* candidate three edits away is returned, not the one declared before it
DistanceRuleWitness ==
  /\ pc = "returned"
  /\ mistyped = <<"a","b","c","d","e","f","g","h","i","j","k","l">>
  /\ declared = <<<<"a","b","c","d","e","f","g","h">>, <<"a","b","c","d","e","f","g","h","i">>>>
  /\ PrefixMatches = {}
  /\ TranspositionMatches = {}
  /\ NearInLength = {2}
  /\ EditDistance(mistyped, declared[1]) = 4
  /\ LeastDistance = 3
  /\ Threshold = 4
  /\ suggested = <<"a","b","c","d","e","f","g","h","i">>

\* position i of the token list a holds a token without a dash directly after
\* a token with one
AfterFlag(a, i) == i > 1 /\ ~HasPrefix(a[i], Dash) /\ HasPrefix(a[i - 1], Dash)

\* the token at position i of a is recorded as the value of the flag before
\* it, unless a later occurrence of that flag took a value of its own
TakenAsValue(a, m, i) ==
  /\ a[i - 1] \in DOMAIN m.argMap
  /\ (\A j \in (i + 1)..Len(a) : ~(AfterFlag(a, j) /\ a[j - 1] = a[i - 1]))
       => m.argMap[a[i - 1]] = a[i]
  /\ \A k \in 1..Len(m.positionalIdxs) : m.positionalIdxs[k] # i

\* C26: the adjacency rule ignores declarations.  In every token list that is
\* classified, a token without a dash that directly follows a token with one
\* is taken as that flag's value, whatever the scope declares, and is not a
\* positional token; so the token a scope dispatches on, or rejects as an
\* unknown subcommand, never directly follows a flag-like token of that list,
\* and no subcommand is marked that was not dispatched to.
AdjacencyIgnoresDeclarations ==
  /\ [](\A m \in {buildArgMaps(Classified)} :
          \A i \in 1..Len(Classified) :
            AfterFlag(Classified, i) => TakenAsValue(Classified, m, i))
  /\ [](\A t \in DOMAIN selected :
          selected[t] => \E k \in 1..Len(path) : path[k].sub = t)
  /\ [][pc = "parseWithArgs" =>
          \A nargs \in {Normalize(args)} :
            /\ path' # path =>
                 ~AfterFlag(nargs, path'[Len(path')].at
                                     - (off + Len(args) - Len(nargs)))
            /\ err'.Kind = "UnknownSubcommand" =>
                 \E i \in 1..Len(nargs) :
                   nargs[i] = err'.Name /\ ~HasPrefix(nargs[i], Dash)
                                        /\ ~AfterFlag(nargs, i)]_vars

\* reached: `-v serve` on the demo program, whose root declares no -v and
\* whose subcommand serve declares it for a bool field: serve is the value of
\* -v, nothing is dispatched or marked, and the parse succeeds
AdjacencyIgnoresDeclarationsWitness ==
  /\ pc = "done"
  /\ result = "ok"
  /\ root = "CLIArgs"
  /\ input = <<<<"-","v">>, <<"s","e","r","v","e">>>>
  /\ MatchSubcommand(root, <<"s","e","r","v","e">>) # 0
  /\ buildArgMaps(input).argMap = MapPut(EmptyMap, <<"-","v">>, <<"s","e","r","v","e">>)
  /\ buildArgMaps(input).positionals = <<>>
  /\ path = <<>>
  /\ \A t \in DOMAIN selected : ~selected[t]

\* strconv accepts the string v for a Value member of the given kind
Converts(kind, v) ==
  CASE kind = "int" -> Atoi(v).ok
    [] kind = "float64" -> ParseFloat(v).ok
    [] kind = "bool" -> ParseBool(v).ok
    [] OTHER -> TRUE

\* the field structs whose Value member is an int, a float64 or a bool
ConvertedFields ==
  {e \in DOMAIN bound :
     ValueField(e) # 0 /\ ValueKind(e) \in {"int", "float64", "bool"}}

\* the step parseFields takes for field struct e: a string is matched for it
MatchedFor(e) == pc = "field" /\ bound'[e] # bound[e]

\* C27: a coercion failure is silent.  When the string matched for an int,
\* float64 or bool field cannot be converted, the step leaves the value slot
\* as it was, produces no error, and goes on to the next field.
CoercionFailureSilent ==
  [][\A e \in ConvertedFields :
       (MatchedFor(e) /\ ~Converts(ValueKind(e), bound'[e].str)) =>
          /\ vals'[e] = vals[e]
          /\ err' = NoError
          /\ result' = "running"
          /\ pc' = "field"
          /\ fi' = fi + 1]_vars

\* reached: x was matched for the float64 field and left it 0, the field
\* after it was bound, and Parse returned nil
CoercionFailureSilentWitness ==
  /\ pc = "done"
  /\ result = "ok"
  /\ err = NoError
  /\ root = "Ratio"
  /\ input = <<<<"x">>, <<"k","g">>>>
  /\ bound["RatioRate"].str = <<"x">>
  /\ ~Converts("float64", <<"x">>)
  /\ vals["RatioRate"] = ZeroValue
  /\ vals["RatioUnit"].str = <<"k","g">>

\* the flag tokens the fields of scope t declare
DeclaredFlags(t) ==
  {DashDash \o FieldTags(t, i)["long"] :
     i \in {k \in ValueFields(t) : FieldTags(t, k)["long"] # Empty}}
  \cup {Dash \o FieldTags(t, i)["short"] :
          i \in {k \in ValueFields(t) : FieldTags(t, k)["short"] # Empty}}

\* the help and version flags scope t has enabled
EnabledMetaFlags(t) ==
  (IF FlagHelpOn(t) THEN {ShortHelpFlag, LongHelpFlag} ELSE {})
  \cup (IF Embeds(t, "Version") THEN {VersionFlag} ELSE {})

\* the positions of the token list a of scope t that hold a flag-like token
\* which no field of t declares and which is no enabled help or version flag
UndeclaredIdxs(t, a) ==
  {i \in 1..Len(a) :
     /\ HasPrefix(a[i], Dash)
     /\ a[i] \notin DeclaredFlags(t) \cup EnabledMetaFlags(t)}

\* the positions of a that the classifier hands to no flag: the positional
\* tokens beyond the number of positional fields of t
SurplusIdxs(t, a) ==
  {buildArgMaps(a).positionalIdxs[k] :
     k \in {j \in 1..Len(buildArgMaps(a).positionalIdxs) :
              j > Cardinality(PositionalFields(t))}}

\* C28: undeclared flags and surplus positionals are ignored.  In a scope's
\* token list a flag-like token that no field of the scope declares and that
\* is no enabled help or version flag produces no error and ends nothing: no
\* step fails or prints because of it, and neither it nor the token taken as
\* its value nor a positional token beyond the positional fields is bound.
UndeclaredIgnored ==
  [][/\ pc = "field" =>
          \A e \in DOMAIN bound :
            (bound'[e] # bound[e] /\ bound'[e].idx # 0) =>
               /\ bound'[e].idx - off \notin UndeclaredIdxs(target, args)
               /\ ~(/\ bound'[e].idx - off - 1 \in UndeclaredIdxs(target, args)
                    /\ ~HasPrefix(args[bound'[e].idx - off], Dash))
               /\ bound'[e].idx - off \notin SurplusIdxs(target, args)
     /\ (pc = "field" /\ err' # NoError) =>
          err'.Kind \in {"MissingArg", "UnsupportedFieldType"}
     /\ (pc = "parseFields" /\ result' # "running") =>
          \E i \in 1..Len(args) : args[i] \in EnabledMetaFlags(target)
     /\ (pc = "descend" /\ result' # "running") =>
          \E i \in 1..Len(cont.subArgs) :
            cont.subArgs[i] \in EnabledMetaFlags(target)
                                  \cup EnabledMetaFlags(cont.sub)]_vars

\* the scope that declares field struct e
ScopeOf(e) ==
  CHOOSE t \in TypeIds : \E i \in 1..Len(TypeFields(t)) : TypeFields(t)[i].Elem = e

\* scope t declares at least one subcommand
HasSubcommands(t) == Len(SubNames(t)) > 0

\* the positional fields of scope t that are required and have no default
RequiredPositionals(t) ==
  {i \in PositionalFields(t) :
     IsRequired(FieldTags(t, i)) /\ ~HasDefault(FieldTags(t, i))}

HelpAfter(p) ==
  \E i \in (p + 1)..Len(input) : input[i] \in {ShortHelpFlag, LongHelpFlag}

\* C30: help after a subcommand is scoped to the outermost matched
\* subcommand.  When a subcommand is matched and a later token, at any depth,
\* is -h or --help, the matter is settled for that first subcommand once the
\* parent's fields are resolved and the subcommand is marked: its help is
\* printed (or the request rejected), no field of the child is resolved and no
\* deeper subcommand is matched; for `a b --help` the help is that of a.
HelpScopedOutermost ==
  /\ [](Len(path) >= 2 => ~HelpAfter(path[1].at))
  /\ []((Len(path) >= 1 /\ HelpAfter(path[1].at)) =>
          /\ target = root
          /\ \A e \in DOMAIN bound :
               bound[e].how # "" => (e # root /\ ScopeOf(e) = root)
          /\ \A t \in DOMAIN selected : selected[t] => t = path[1].sub
          /\ out.what = "subhelp" => out.of = path[1].sub
          /\ pc = "done" => result # "ok")
  /\ [][(pc = "descend" /\ HelpAfter(path[1].at)) =>
          /\ pc' = "done"
          /\ \/ result' = "error"
             \/ /\ result' = "exit"
                /\ out' = [what |-> "subhelp", of |-> path[1].sub]
          /\ Markable(path[1].sub) => selected'[path[1].sub]
          /\ vals' = vals
          /\ bound' = bound
          /\ path' = path]_vars

\* reached: for `remote add -h` the help printed is that of remote; remote is
\* marked, add is neither matched nor marked
HelpScopedOutermostWitness ==
  /\ pc = "done"
  /\ root = "NestedApp"
  /\ input = <<<<"r","e","m","o","t","e">>, <<"a","d","d">>, ShortHelpFlag>>
  /\ result = "exit"
  /\ out = [what |-> "subhelp", of |-> "Remote"]
  /\ path = <<[sub |-> "Remote", at |-> 1]>>
  /\ selected["Remote"]
  /\ ~selected["RemoteAdd"]
====
